---- MODULE Spec2Model ----
(***************************************************************************)
(* ValueLens reverse-DCF engine (src/dcf-engine.js) and the handlers that  *)
(* call it (src/server.js, routes/watchlist.js).                            *)
(*                                                                         *)
(* JavaScript Numbers are modelled as exact rationals: a Number is a       *)
(* record [kind, sg, num, den] whose magnitude num/den is a pair of        *)
(* arbitrary-precision naturals (little-endian limbs in radix Base).       *)
(* A division by zero yields NaN, which every arithmetic operator          *)
(* propagates and every comparison answers with FALSE, as IEEE-754 does.   *)
(* The rounding error of IEEE doubles (about 1e-16 relative) is not        *)
(* modelled; every tolerance of the program is 1e-5 or coarser.            *)
(***************************************************************************)
EXTENDS Integers, Sequences, FiniteSets, TLC

VARIABLES
  vcall,    \* a call of calculateImpliedEquityValue: its arguments and result
  scall,    \* a call of getSignal: its argument and result
  dcall,    \* a call of getDefaultAssumptions: its arguments and result
  runs,     \* solver calls in progress at the same time, each with its locals
  gcall,    \* a call of the back end's and of the front end's solver on the same inputs
  pc,       \* position of the running solveImpliedGrowthRate call
  args,     \* arguments of the running solveImpliedGrowthRate call
  low,      \* solver local: lower end of the bracket (grid index, see GridPct)
  high,     \* solver local: upper end of the bracket (grid index)
  i,        \* solver local: loop counter
  mid,      \* solver local: the last midpoint evaluated (grid index)
  evals,    \* number of calls of calculateImpliedEquityValue made by the solver
  ret,      \* value returned by solveImpliedGrowthRate
  watchlists, \* rows of the watchlists table
  items,    \* rows of the watchlist_items table
  resp,     \* the last response sent, with the request it answers
  nreq      \* number of requests served

solverVars == <<pc, args, low, high, i, mid, evals, ret>>

callVars == <<vcall, scall, dcall, runs, gcall>>

apiVars == <<watchlists, items, resp, nreq>>

vars == <<vcall, scall, dcall, runs, gcall, pc, args, low, high, i, mid, evals, ret, watchlists, items, resp, nreq>>

NoResponse == [route |-> "none"]

\* the database is empty and no request has been served
ApiIdle ==
  /\ watchlists = {}
  /\ items = {}
  /\ resp = NoResponse
  /\ nreq = 0

(***************************************************************************)
(* Arbitrary-precision naturals.                                           *)
(***************************************************************************)
Base == 4096

MaxOf(a, b) == IF a >= b THEN a ELSE b
MinOf(a, b) == IF a <= b THEN a ELSE b

\* The recursions below halve their range, so that their depth is the
\* logarithm of the length of the numbers.

RECURSIVE NatOfInt(_)
NatOfInt(k) == IF k = 0 THEN <<>> ELSE <<k % Base>> \o NatOfInt(k \div Base)

\* s without its leading (most significant) zero limbs
Trim(s) ==
  IF \A k \in 1..Len(s) : s[k] = 0 THEN <<>>
  ELSE LET top == CHOOSE k \in 1..Len(s) :
                    s[k] # 0 /\ \A j \in (k + 1)..Len(s) : s[j] = 0
       IN SubSeq(s, 1, top)

\* the limbs of columns lo..hi with the carry c coming in, and the carry out
RECURSIVE CarryRange(_, _, _, _)
CarryRange(cols, lo, hi, c) ==
  IF lo = hi
  THEN LET v == cols[lo] + c IN << <<v % Base>>, v \div Base >>
  ELSE LET m == (lo + hi) \div 2
           l == CarryRange(cols, lo, m, c)
           r == CarryRange(cols, m + 1, hi, l[2])
       IN <<l[1] \o r[1], r[2]>>

\* the limbs s[1] followed by the limbs of the carry out s[2]
JoinCarry(s) == s[1] \o NatOfInt(s[2])

Carry(cols, c) ==
  IF Len(cols) = 0 THEN NatOfInt(c) ELSE JoinCarry(CarryRange(cols, 1, Len(cols), c))

Limb(s, k) == IF k <= Len(s) THEN s[k] ELSE 0

NatAdd(a, b) == Carry([k \in 1..MaxOf(Len(a), Len(b)) |-> Limb(a, k) + Limb(b, k)], 0)

\* the sum of a[j] * b[k + 1 - j] for j in lo..hi
RECURSIVE ColSum(_, _, _, _, _)
ColSum(a, b, k, lo, hi) ==
  IF lo > hi THEN 0
  ELSE IF lo = hi THEN a[lo] * b[k + 1 - lo]
  ELSE LET m == (lo + hi) \div 2
       IN ColSum(a, b, k, lo, m) + ColSum(a, b, k, m + 1, hi)

NatMul(a, b) ==
  IF a = <<>> \/ b = <<>> THEN <<>>
  ELSE Carry([k \in 1..(Len(a) + Len(b) - 1) |->
                ColSum(a, b, k, MaxOf(1, k + 1 - Len(b)), MinOf(k, Len(a)))], 0)

\* -1, 0 or 1 as a < b, a = b, a > b
NatCmp(a, b) ==
  IF Len(a) < Len(b) THEN -1
  ELSE IF Len(a) > Len(b) THEN 1
  ELSE IF \A k \in 1..Len(a) : a[k] = b[k] THEN 0
  ELSE LET top == CHOOSE k \in 1..Len(a) :
                    a[k] # b[k] /\ \A j \in (k + 1)..Len(a) : a[j] = b[j]
       IN IF a[top] < b[top] THEN -1 ELSE 1

\* the limbs lo..hi of a - b with the borrow br coming in, and the borrow out
RECURSIVE BorrowRange(_, _, _, _, _)
BorrowRange(a, b, lo, hi, br) ==
  IF lo = hi
  THEN LET v == a[lo] - Limb(b, lo) - br
       IN IF v < 0 THEN << <<v + Base>>, 1 >> ELSE << <<v>>, 0 >>
  ELSE LET m == (lo + hi) \div 2
           l == BorrowRange(a, b, lo, m, br)
           r == BorrowRange(a, b, m + 1, hi, l[2])
       IN <<l[1] \o r[1], r[2]>>

\* a - b for a >= b
NatSub(a, b) ==
  IF Len(a) = 0 THEN <<>> ELSE Trim(BorrowRange(a, b, 1, Len(a), 0)[1])

\* floor(a / b) for b > 0, as an integer in lo..hi, by binary search
RECURSIVE FloorSearch(_, _, _, _)
FloorSearch(a, b, lo, hi) ==
  IF lo >= hi THEN lo
  ELSE LET m == (lo + hi + 1) \div 2
       IN IF NatCmp(NatMul(NatOfInt(m), b), a) <= 0
          THEN FloorSearch(a, b, m, hi)
          ELSE FloorSearch(a, b, lo, m - 1)

\* the quotients taken are hundredths of a percentage and years: far below this
QuotientLimit == 2 ^ 16

\* floor(a / b) for b > 0
NatDiv(a, b) == FloorSearch(a, b, 0, QuotientLimit)

(***************************************************************************)
(* JavaScript Numbers as exact rationals, with NaN and null.               *)
(***************************************************************************)
Num(s, n, d) == [kind |-> "num", sg |-> s, num |-> n, den |-> d]
NaN  == [kind |-> "nan",  sg |-> 0, num |-> <<>>, den |-> <<>>]
Null == [kind |-> "null", sg |-> 0, num |-> <<>>, den |-> <<>>]

\* a local that holds no value yet
Unset == [kind |-> "unset", sg |-> 0, num |-> <<>>, den |-> <<>>]

Undefined == [kind |-> "undefined", sg |-> 0, num |-> <<>>, den |-> <<>>]

IsNum(a)  == a.kind = "num"
IsUndefined(a) == a.kind = "undefined"
IsNull(a) == a.kind = "null"

SignOf(k) == IF k > 0 THEN 1 ELSE IF k < 0 THEN -1 ELSE 0
AbsInt(k) == IF k < 0 THEN -k ELSE k

\* the Number k / d for integers k and d > 0
Frac(k, d) == Num(SignOf(k), NatOfInt(AbsInt(k)), NatOfInt(d))
Int2Num(k) == Frac(k, 1)

\* a signed natural (sign, magnitude) sum: s1*m1 + s2*m2
\* s1*m1 + s2*m2 for opposite signs, c being the comparison of m1 with m2
SignedDiff(s1, m1, s2, m2, c) ==
  IF c = 0 THEN <<0, <<>> >>
  ELSE <<IF c > 0 THEN s1 ELSE s2,
         NatSub(IF c > 0 THEN m1 ELSE m2, IF c > 0 THEN m2 ELSE m1)>>

SignedAdd(s1, m1, s2, m2) ==
  IF s1 = 0 THEN <<s2, m2>>
  ELSE IF s2 = 0 THEN <<s1, m1>>
  ELSE IF s1 = s2 THEN <<s1, NatAdd(m1, m2)>>
  ELSE SignedDiff(s1, m1, s2, m2, NatCmp(m1, m2))

\* the Number of the signed natural s over the denominator d
SignedNum(s, d) == Num(s[1], s[2], d)

NumNeg(a) == IF ~IsNum(a) THEN NaN ELSE Num(-a.sg, a.num, a.den)
NumAbs(a) == IF ~IsNum(a) THEN NaN ELSE Num(a.sg * a.sg, a.num, a.den)

\* equal denominators are kept, others are multiplied
NumAdd(a, b) ==
  IF ~IsNum(a) \/ ~IsNum(b) THEN NaN
  ELSE SignedNum(SignedAdd(a.sg, IF a.den = b.den THEN a.num ELSE NatMul(a.num, b.den),
                           b.sg, IF a.den = b.den THEN b.num ELSE NatMul(b.num, a.den)),
                 IF a.den = b.den THEN a.den ELSE NatMul(a.den, b.den))

NumSub(a, b) == NumAdd(a, NumNeg(b))

NumMul(a, b) ==
  IF ~IsNum(a) \/ ~IsNum(b) THEN NaN
  ELSE IF a.sg = 0 \/ b.sg = 0 THEN Num(0, <<>>, <<1>>)
  ELSE Num(a.sg * b.sg, NatMul(a.num, b.num), NatMul(a.den, b.den))

\* x / 0 is NaN or an infinity in JavaScript; both are kept as NaN here (no
\* input of the specifications below divides a non-zero Number by zero)
NumDiv(a, b) ==
  IF ~IsNum(a) \/ ~IsNum(b) THEN NaN
  ELSE IF b.sg = 0 THEN NaN
  ELSE IF a.sg = 0 THEN Num(0, <<>>, <<1>>)
  ELSE Num(a.sg * b.sg, NatMul(a.num, b.den), NatMul(a.den, b.num))

\* -1, 0, 1 as a < b, a = b, a > b, for Numbers that are not NaN
NumCmp(a, b) ==
  IF a.sg # b.sg THEN (IF a.sg < b.sg THEN -1 ELSE 1)
  ELSE IF a.sg = 0 THEN 0
  ELSE a.sg * NatCmp(NatMul(a.num, b.den), NatMul(b.num, a.den))

NumLess(a, b) == IsNum(a) /\ IsNum(b) /\ NumCmp(a, b) < 0
NumLeq(a, b)  == IsNum(a) /\ IsNum(b) /\ NumCmp(a, b) <= 0
NumEq(a, b)   == IsNum(a) /\ IsNum(b) /\ NumCmp(a, b) = 0

Square(a) == NumMul(a, a)

\* a^n for n >= 0, by squaring
RECURSIVE PowNat(_, _)
PowNat(a, n) ==
  IF n = 0 THEN Int2Num(1)
  ELSE IF n = 1 THEN a
  ELSE NumMul(Square(PowNat(a, n \div 2)), IF n % 2 = 0 THEN Int2Num(1) ELSE a)

\* p for an exponent n >= 0, 1 / p for a negative one
PowSigned(p, n) == IF n >= 0 THEN p ELSE NumDiv(Int2Num(1), p)

\* Math.pow(a, n) for an integer exponent n
MathPow(a, n) == PowSigned(PowNat(a, AbsInt(n)), n)

\* floor(b), q being the floor of the magnitude of b
FloorSigned(b, q) ==
  IF b.sg >= 0 THEN q
  ELSE IF NatMul(NatOfInt(q), b.den) = b.num THEN -q ELSE -(q + 1)

\* floor(b), as an integer
MathFloor(b) == FloorSigned(b, NatDiv(b.num, b.den))

\* Math.round(a): floor(a + 1/2), as an integer
MathRound(a) == MathFloor(NumAdd(a, Frac(1, 2)))

(***************************************************************************)
(* calculateImpliedEquityValue (src/dcf-engine.js:23-47)                   *)
(***************************************************************************)
\* |r - g| < 0.0001
NearEqualRates(r, g) == NumLess(NumAbs(NumSub(r, g)), Frac(1, 10000))

\* mutant: the summation forgets the growth of the profit
RECURSIVE SumEarningsFlat(_, _, _, _, _)
SumEarningsFlat(currentPAT, g, r, t, n) ==
  IF t > n THEN Int2Num(0)
  ELSE NumAdd(NumDiv(currentPAT, MathPow(NumAdd(Int2Num(1), r), t)),
              SumEarningsFlat(currentPAT, g, r, t + 1, n))

\* for (t = 1; t <= n; t++) pvEarnings += PAT*(1+g)^t / (1+r)^t, from t on
RECURSIVE SumEarnings(_, _, _, _, _)
SumEarnings(currentPAT, g, r, t, n) ==
  IF t > n THEN Int2Num(0)
  ELSE NumAdd(NumDiv(NumMul(currentPAT, MathPow(NumAdd(Int2Num(1), g), t)),
                     MathPow(NumAdd(Int2Num(1), r), t)),
              SumEarnings(currentPAT, g, r, t + 1, n))

\* mutant: the annuity divides by (g - r)
GrowingAnnuityFlipped(currentPAT, g, r, n) ==
  NumMul(NumMul(currentPAT, NumAdd(Int2Num(1), g)),
         NumDiv(NumSub(Int2Num(1),
                       NumMul(MathPow(NumAdd(Int2Num(1), g), n),
                              MathPow(NumAdd(Int2Num(1), r), -n))),
                NumSub(g, r)))

\* PAT * (1+g) * ((1 - (1+g)^n * (1+r)^(-n)) / (r - g))
GrowingAnnuity(currentPAT, g, r, n) ==
  NumMul(NumMul(currentPAT, NumAdd(Int2Num(1), g)),
         NumDiv(NumSub(Int2Num(1),
                       NumMul(MathPow(NumAdd(Int2Num(1), g), n),
                              MathPow(NumAdd(Int2Num(1), r), -n))),
                NumSub(r, g)))

\* mutant: no near-equal-rates branch, the closed form is used throughout
PvEarningsClosedOnly(currentPAT, g, r, n) == GrowingAnnuity(currentPAT, g, r, n)

PvEarnings(currentPAT, g, r, n) ==
  IF NearEqualRates(r, g) THEN SumEarnings(currentPAT, g, r, 1, n)
  ELSE GrowingAnnuity(currentPAT, g, r, n)

\* mutant: the terminal value is not discounted
TerminalValueUndiscounted(currentPAT, g, r, n, exitPE) ==
  NumMul(NumMul(currentPAT, MathPow(NumAdd(Int2Num(1), g), n)), exitPE)

\* (PAT * (1+g)^n * exitPE) / (1+r)^n
TerminalValue(currentPAT, g, r, n, exitPE) ==
  NumDiv(NumMul(NumMul(currentPAT, MathPow(NumAdd(Int2Num(1), g), n)), exitPE),
         MathPow(NumAdd(Int2Num(1), r), n))

\* mutant: the guard forgets the forecast period
DegenerateNoHorizon(currentPAT, forecastPeriod, exitPE) ==
  NumLeq(currentPAT, Int2Num(0)) \/ NumLeq(exitPE, Int2Num(0))

Degenerate(currentPAT, forecastPeriod, exitPE) ==
  NumLeq(currentPAT, Int2Num(0)) \/ NumLeq(exitPE, Int2Num(0)) \/ forecastPeriod <= 0

calculateImpliedEquityValue(currentPAT, growthRatePct, discountRatePct, forecastPeriod, exitPE) ==
  IF Degenerate(currentPAT, forecastPeriod, exitPE) THEN Int2Num(0)
  ELSE LET g == NumDiv(growthRatePct, Int2Num(100))
           r == NumDiv(discountRatePct, Int2Num(100))
       IN NumAdd(PvEarnings(currentPAT, g, r, forecastPeriod),
                 TerminalValue(currentPAT, g, r, forecastPeriod, exitPE))

\* calcValue of the front end (same formula, its own copy)
calcValue(pat, gPct, rPct, n, pe) ==
  IF NumLeq(pat, Int2Num(0)) \/ NumLeq(pe, Int2Num(0)) \/ n <= 0 THEN Int2Num(0)
  ELSE LET g == NumDiv(gPct, Int2Num(100))
           r == NumDiv(rPct, Int2Num(100))
           pv == IF NumLess(NumAbs(NumSub(r, g)), Frac(1, 10000))
                 THEN SumEarnings(pat, g, r, 1, n)
                 ELSE GrowingAnnuity(pat, g, r, n)
       IN NumAdd(pv, NumDiv(NumMul(NumMul(pat, MathPow(NumAdd(Int2Num(1), g), n)), pe),
                            MathPow(NumAdd(Int2Num(1), r), n)))

(***************************************************************************)
(* solveImpliedGrowthRate (src/dcf-engine.js:58-78)                        *)
(*                                                                         *)
(* low, high and mid are dyadic points of the initial bracket: the grid    *)
(* index a stands for the Number  -90 + 290 * a / 2^GridBits.  The         *)
(* midpoint (low + high) / 2 of two grid points is exact while the bracket *)
(* is wider than one grid step, as it is in IEEE double while the bracket  *)
(* is wider than one unit in the last place; below that the midpoint       *)
(* rounds to the nearer representable point, ties to even.                 *)
(***************************************************************************)
BracketLow == -90
BracketHigh == 200
maxIterations == 500
GridBits == 24

GridTop == 2 ^ GridBits

\* the fraction a / d in lowest terms, for d a power of two up to 2^GridBits
Lowest(a, d) ==
  LET k == CHOOSE k \in 0..GridBits :
             a % (2 ^ k) = 0 /\ (2 ^ k = d \/ a % (2 ^ (k + 1)) # 0)
  IN <<a \div (2 ^ k), d \div (2 ^ k)>>

\* mutant: the bracket of the front end's solveGrowth, -80 to 150
GridPctFrontEnd(a) ==
  LET f == Lowest(a, GridTop)
  IN NumAdd(Int2Num(-80), NumMul(Int2Num(230), Frac(f[1], f[2])))

\* the Number at grid index a:  -90 + 290 * a / 2^GridBits
GridPct(a) ==
  LET f == Lowest(a, GridTop)
  IN NumAdd(Int2Num(BracketLow), NumMul(Int2Num(BracketHigh - BracketLow), Frac(f[1], f[2])))

\* mutant: the bracket is cut at its first quarter
MidpointQuarter(lo, hi) == lo + ((hi - lo) \div 4)

\* (low + high) / 2
Midpoint(lo, hi) ==
  IF (lo + hi) % 2 = 0 THEN (lo + hi) \div 2
  ELSE LET h == (lo + hi - 1) \div 2 IN IF h % 2 = 0 THEN h ELSE h + 1

\* mutant: the rounded hundredths are not divided by 100 again
Round2Hundredths(m) == Int2Num(MathRound(NumMul(GridPct(m), Int2Num(100))))

\* Math.round(mid * 100) / 100
Round2(m) == Frac(MathRound(NumMul(GridPct(m), Int2Num(100))), 100)

\* mutant: a loop that ran out returns the sentinel
ExhaustResultNull(lo, hi) == Null

\* return Math.round(((low + high) / 2) * 100) / 100, line 77
ExhaustResult(lo, hi) == Round2(Midpoint(lo, hi))

\* mutant: the guard forgets the market cap
SolverDegenerateNoCap(currentPAT, marketCap, exitPE) ==
  NumLeq(currentPAT, Int2Num(0)) \/ NumLeq(exitPE, Int2Num(0))

SolverDegenerate(currentPAT, marketCap, exitPE) ==
  NumLeq(currentPAT, Int2Num(0)) \/ NumLeq(marketCap, Int2Num(0)) \/ NumLeq(exitPE, Int2Num(0))

\* tolerance = marketCap * 0.00001
Tolerance(marketCap) == NumMul(marketCap, Frac(1, 100000))

\* Math.abs(val - target) < tolerance
WithinTolerance(val, marketCap) ==
  IsNum(val) /\ NumLess(NumAbs(NumSub(val, marketCap)), Tolerance(marketCap))

\* mutant: the bracket is narrowed on the wrong side
NarrowInverted(val, marketCap, lo, hi, m) ==
  IF NumLess(val, marketCap) THEN <<lo, m>> ELSE <<m, hi>>

\* if (val < target) low = mid; else high = mid;   as <<low, high>>
Narrow(val, marketCap, lo, hi, m) ==
  IF NumLess(val, marketCap) THEN <<m, hi>> ELSE <<lo, m>>

\* the solver's inputs as one record
SolverCall(currentPAT, marketCap, discountRatePct, forecastPeriod, exitPE) ==
  [currentPAT |-> currentPAT, marketCap |-> marketCap, discountRatePct |-> discountRatePct,
   forecastPeriod |-> forecastPeriod, exitPE |-> exitPE]

\* mutant: the value is rounded to 2 decimal places before it is compared
ValueAtRounded(a, m) ==
  Frac(MathRound(NumMul(calculateImpliedEquityValue(a.currentPAT, GridPct(m),
                                                    a.discountRatePct, a.forecastPeriod,
                                                    a.exitPE),
                        Int2Num(100))),
       100)

\* const val = calculateImpliedEquityValue(currentPAT, mid, ...)
ValueAt(a, m) ==
  calculateImpliedEquityValue(a.currentPAT, GridPct(m), a.discountRatePct,
                              a.forecastPeriod, a.exitPE)

\* the loop goes on with the bracket b
Bracket(b) == [low |-> b[1], high |-> b[2], done |-> FALSE, ret |-> Null]

\* lines 71-74 with the midpoint m and its value val
StepWith(c, st, m, val) ==
  IF WithinTolerance(val, c.marketCap)
  THEN [low |-> st.low, high |-> st.high, done |-> TRUE, ret |-> Round2(m)]
  ELSE Bracket(Narrow(val, c.marketCap, st.low, st.high, m))

\* one iteration of the loop on the bracket st; done when it returned
BisectStep(c, st) ==
  IF st.done THEN st
  ELSE LET m == Midpoint(st.low, st.high) IN StepWith(c, st, m, ValueAt(c, m))

\* n iterations of the loop
RECURSIVE BisectRun(_, _, _)
BisectRun(c, st, n) ==
  IF n = 0 \/ st.done THEN st
  ELSE IF n = 1 THEN BisectStep(c, st)
  ELSE BisectRun(c, BisectRun(c, st, n \div 2), n - (n \div 2))

\* what the call returns when the loop ended in st
LoopResult(st) == IF st.done THEN st.ret ELSE ExhaustResult(st.low, st.high)

\* the loop, and the return that follows it
BisectLoop(c) == LoopResult(BisectRun(c, Bracket(<<0, GridTop>>), maxIterations))

solveImpliedGrowthRate(currentPAT, marketCap, discountRatePct, forecastPeriod, exitPE) ==
  IF SolverDegenerate(currentPAT, marketCap, exitPE) THEN Null
  ELSE BisectLoop(SolverCall(currentPAT, marketCap, discountRatePct, forecastPeriod, exitPE))

(***************************************************************************)
(* The solver as a process: one step per loop iteration.                   *)
(***************************************************************************)
MaxHorizon == 3

SolverArgs ==
  [currentPAT: {Int2Num(0), Int2Num(10)},
   marketCap: {Int2Num(0), Int2Num(1), Int2Num(50), Int2Num(300), Int2Num(4000)},
   discountRatePct: {Int2Num(15)},
   forecastPeriod: 0..MaxHorizon,
   exitPE: {Int2Num(0), Int2Num(20)}]

NoCall == [called |-> FALSE]

Init ==
  /\ args \in SolverArgs
  /\ pc = "entry"
  /\ low = 0
  /\ high = 0
  /\ i = 0
  /\ mid = 0
  /\ evals = 0
  /\ ret = Unset
  /\ vcall = NoCall
  /\ scall = NoCall
  /\ dcall = NoCall
  /\ runs = NoCall
  /\ gcall = NoCall
  /\ ApiIdle

\* line 59, then lines 61-65
SolveEnter ==
  /\ pc = "entry"
  /\ IF SolverDegenerate(args.currentPAT, args.marketCap, args.exitPE)
     THEN /\ pc' = "done"
          /\ ret' = Null
          /\ UNCHANGED <<low, high>>
     ELSE /\ pc' = "loop"
          /\ low' = 0
          /\ high' = GridTop
          /\ UNCHANGED ret
  /\ i' = 0
  /\ UNCHANGED <<apiVars, callVars, args, mid, evals>>

\* low and high become the bracket b
NarrowTo(b) == low' = b[1] /\ high' = b[2]

\* lines 71-74 with the midpoint m and its value val
IterateWith(m, val) ==
  IF WithinTolerance(val, args.marketCap)
  THEN /\ ret' = Round2(m)
       /\ pc' = "done"
       /\ UNCHANGED <<low, high, i>>
  ELSE /\ NarrowTo(Narrow(val, args.marketCap, low, high, m))
       /\ i' = i + 1
       /\ UNCHANGED <<ret, pc>>

\* one iteration of the loop, lines 67-75
SolveIterate ==
  /\ pc = "loop"
  /\ i < maxIterations
  /\ LET m == Midpoint(low, high)
     IN /\ mid' = m
        /\ evals' = evals + 1
        /\ IterateWith(m, ValueAt(args, m))
  /\ UNCHANGED <<apiVars, callVars, args>>

\* the loop ran out, line 77
SolveExhaust ==
  /\ pc = "loop"
  /\ i >= maxIterations
  /\ ret' = ExhaustResult(low, high)
  /\ pc' = "done"
  /\ UNCHANGED <<apiVars, callVars, args, low, high, i, mid, evals>>

Next == SolveEnter \/ SolveIterate \/ SolveExhaust

Spec == Init /\ [][Next]_vars

(***************************************************************************)
(* Calls of the valuation function on its own.                             *)
(***************************************************************************)
\* growth and discount rates, in thousandths of a percent
GrowthMilli ==
  {-250000, -150000, -100000, -90000, -50000, 0, 14990, 14995, 15000, 15005, 15010,
   100000, 200000}
DiscountMilli == {-150000, -50000, 0, 14999, 15000}

ValueArgs ==
  [currentPAT: {Int2Num(-5), Int2Num(0), Int2Num(1), Int2Num(100)},
   growthRatePct: {Frac(k, 1000) : k \in GrowthMilli},
   discountRatePct: {Frac(k, 1000) : k \in DiscountMilli},
   forecastPeriod: (-1)..MaxHorizon,
   exitPE: {Int2Num(-1), Int2Num(0), Int2Num(1), Int2Num(20)}]

ValueOf(a) ==
  calculateImpliedEquityValue(a.currentPAT, a.growthRatePct, a.discountRatePct,
                              a.forecastPeriod, a.exitPE)

\* no solver call is running
SolverIdle ==
  /\ pc = "idle"
  /\ args = <<>>
  /\ low = 0
  /\ high = 0
  /\ i = 0
  /\ mid = 0
  /\ evals = 0
  /\ ret = Unset

InitValue ==
  /\ vcall \in [called: {FALSE}, args: ValueArgs]
  /\ scall = NoCall
  /\ dcall = NoCall
  /\ runs = NoCall
  /\ gcall = NoCall
  /\ SolverIdle
  /\ ApiIdle

CallValue ==
  /\ ~vcall.called
  /\ vcall' = [called |-> TRUE,
               args |-> vcall.args,
               ret |-> ValueOf(vcall.args),
               uiRet |-> calcValue(vcall.args.currentPAT, vcall.args.growthRatePct,
                                   vcall.args.discountRatePct, vcall.args.forecastPeriod,
                                   vcall.args.exitPE)]
  /\ UNCHANGED <<apiVars, scall, dcall, runs, gcall, solverVars>>

NextValue == CallValue

SpecValue == InitValue /\ [][NextValue]_vars

(***************************************************************************)
(* getSignal (src/dcf-engine.js:152-159) and the front end's copy.         *)
(***************************************************************************)
\* mutant: the Buy band is tested before the Strong Buy band
getSignalBuyFirst(expectationGap) ==
  IF IsNull(expectationGap) \/ IsUndefined(expectationGap) THEN "N/A"
  ELSE IF NumLess(Int2Num(2), expectationGap) THEN "Buy"
  ELSE IF NumLess(Int2Num(5), expectationGap) THEN "Strong Buy"
  ELSE IF NumLess(expectationGap, Int2Num(-5)) THEN "Sell"
  ELSE IF NumLess(expectationGap, Int2Num(-2)) THEN "Caution"
  ELSE "Hold"

\* mutant: the Strong Buy threshold is inclusive
getSignalInclusive(expectationGap) ==
  IF IsNull(expectationGap) \/ IsUndefined(expectationGap) THEN "N/A"
  ELSE IF NumLeq(Int2Num(5), expectationGap) THEN "Strong Buy"
  ELSE IF NumLess(Int2Num(2), expectationGap) THEN "Buy"
  ELSE IF NumLess(expectationGap, Int2Num(-5)) THEN "Sell"
  ELSE IF NumLess(expectationGap, Int2Num(-2)) THEN "Caution"
  ELSE "Hold"

getSignal(expectationGap) ==
  IF IsNull(expectationGap) \/ IsUndefined(expectationGap) THEN "N/A"
  ELSE IF NumLess(Int2Num(5), expectationGap) THEN "Strong Buy"
  ELSE IF NumLess(Int2Num(2), expectationGap) THEN "Buy"
  ELSE IF NumLess(expectationGap, Int2Num(-5)) THEN "Sell"
  ELSE IF NumLess(expectationGap, Int2Num(-2)) THEN "Caution"
  ELSE "Hold"

\* the front end's getSignal: the label t of the object it returns
uiGetSignal(gap) ==
  IF IsNull(gap) \/ IsUndefined(gap) THEN [t |-> "N/A"]
  ELSE IF NumLess(Int2Num(5), gap) THEN [t |-> "Strong Buy"]
  ELSE IF NumLess(Int2Num(2), gap) THEN [t |-> "Buy"]
  ELSE IF NumLess(gap, Int2Num(-5)) THEN [t |-> "Sell"]
  ELSE IF NumLess(gap, Int2Num(-2)) THEN [t |-> "Caution"]
  ELSE [t |-> "Hold"]

\* gaps in hundredths of a percentage point, -MaxGap..MaxGap
MaxGap == 700

SignalArgs == {Frac(k, 100) : k \in (-MaxGap)..MaxGap} \cup {Null, Undefined, NaN}

InitSignal ==
  /\ scall \in [called: {FALSE}, gap: SignalArgs]
  /\ dcall = NoCall
  /\ runs = NoCall
  /\ gcall = NoCall
  /\ vcall = NoCall
  /\ SolverIdle
  /\ ApiIdle

CallGetSignal ==
  /\ ~scall.called
  /\ scall' = [called |-> TRUE,
               gap |-> scall.gap,
               ret |-> getSignal(scall.gap),
               uiRet |-> uiGetSignal(scall.gap)]
  /\ UNCHANGED <<apiVars, vcall, dcall, runs, gcall, solverVars>>

NextSignal == CallGetSignal

SpecSignal == InitSignal /\ [][NextSignal]_vars

(***************************************************************************)
(* Strings are sequences of one-character strings.                         *)
(***************************************************************************)
UpperCaseLetters ==
  <<"A", "B", "C", "D", "E", "F", "G", "H", "I", "J", "K", "L", "M",
    "N", "O", "P", "Q", "R", "S", "T", "U", "V", "W", "X", "Y", "Z">>

LowerCaseLetters ==
  <<"a", "b", "c", "d", "e", "f", "g", "h", "i", "j", "k", "l", "m",
    "n", "o", "p", "q", "r", "s", "t", "u", "v", "w", "x", "y", "z">>

\* the position of c in an alphabet, 0 when it is not a letter of it
LetterIndex(c, alphabet) ==
  IF \E k \in 1..Len(alphabet) : alphabet[k] = c
  THEN CHOOSE k \in 1..Len(alphabet) : alphabet[k] = c
  ELSE 0

toLowerCase(s) ==
  [k \in 1..Len(s) |->
     LET j == LetterIndex(s[k], UpperCaseLetters)
     IN IF j = 0 THEN s[k] ELSE LowerCaseLetters[j]]

toUpperCase(s) ==
  [k \in 1..Len(s) |->
     LET j == LetterIndex(s[k], LowerCaseLetters)
     IN IF j = 0 THEN s[k] ELSE UpperCaseLetters[j]]

\* s.includes(key)
includes(s, key) ==
  \E k \in 0..(Len(s) - Len(key)) : SubSeq(s, k + 1, k + Len(key)) = key

(***************************************************************************)
(* getDefaultAssumptions (src/dcf-engine.js:100-147)                       *)
(***************************************************************************)
SECTOR_PE ==
  <<
  [key |-> <<"f", "m", "c", "g">>, val |-> 45],
  [key |-> <<"i", "t">>, val |-> 22],
  [key |-> <<"i", "n", "f", "o", "r", "m", "a", "t", "i", "o", "n", " ", "t", "e", "c", "h", "n", "o", "l", "o", "g", "y">>, val |-> 22],
  [key |-> <<"p", "h", "a", "r", "m", "a">>, val |-> 30],
  [key |-> <<"p", "h", "a", "r", "m", "a", "c", "e", "u", "t", "i", "c", "a", "l">>, val |-> 30],
  [key |-> <<"h", "e", "a", "l", "t", "h", "c", "a", "r", "e">>, val |-> 30],
  [key |-> <<"b", "a", "n", "k">>, val |-> 15],
  [key |-> <<"b", "a", "n", "k", "i", "n", "g">>, val |-> 15],
  [key |-> <<"n", "b", "f", "c">>, val |-> 20],
  [key |-> <<"f", "i", "n", "a", "n", "c", "i", "a", "l">>, val |-> 18],
  [key |-> <<"i", "n", "s", "u", "r", "a", "n", "c", "e">>, val |-> 35],
  [key |-> <<"a", "u", "t", "o">>, val |-> 20],
  [key |-> <<"a", "u", "t", "o", "m", "o", "b", "i", "l", "e">>, val |-> 20],
  [key |-> <<"c", "h", "e", "m", "i", "c", "a", "l">>, val |-> 25],
  [key |-> <<"c", "a", "p", "i", "t", "a", "l", " ", "g", "o", "o", "d", "s">>, val |-> 25],
  [key |-> <<"c", "e", "m", "e", "n", "t">>, val |-> 25],
  [key |-> <<"c", "o", "n", "s", "t", "r", "u", "c", "t", "i", "o", "n">>, val |-> 18],
  [key |-> <<"c", "o", "n", "s", "u", "m", "e", "r", " ", "d", "u", "r", "a", "b", "l", "e">>, val |-> 35],
  [key |-> <<"c", "o", "n", "s", "u", "m", "e", "r">>, val |-> 30],
  [key |-> <<"d", "i", "v", "e", "r", "s", "i", "f", "i", "e", "d">>, val |-> 20],
  [key |-> <<"e", "n", "e", "r", "g", "y">>, val |-> 12],
  [key |-> <<"f", "e", "r", "t", "i", "l", "i", "z", "e", "r">>, val |-> 15],
  [key |-> <<"i", "n", "f", "r", "a", "s", "t", "r", "u", "c", "t", "u", "r", "e">>, val |-> 15],
  [key |-> <<"l", "o", "g", "i", "s", "t", "i", "c", "s">>, val |-> 25],
  [key |-> <<"m", "e", "d", "i", "a">>, val |-> 25],
  [key |-> <<"e", "n", "t", "e", "r", "t", "a", "i", "n", "m", "e", "n", "t">>, val |-> 25],
  [key |-> <<"m", "e", "t", "a", "l">>, val |-> 12],
  [key |-> <<"m", "i", "n", "i", "n", "g">>, val |-> 12],
  [key |-> <<"o", "i", "l">>, val |-> 10],
  [key |-> <<"g", "a", "s">>, val |-> 10],
  [key |-> <<"p", "e", "t", "r", "o", "l", "e", "u", "m">>, val |-> 10],
  [key |-> <<"p", "o", "w", "e", "r">>, val |-> 10],
  [key |-> <<"u", "t", "i", "l", "i", "t", "y">>, val |-> 10],
  [key |-> <<"r", "e", "a", "l", " ", "e", "s", "t", "a", "t", "e">>, val |-> 15],
  [key |-> <<"r", "e", "a", "l", "t", "y">>, val |-> 15],
  [key |-> <<"r", "e", "t", "a", "i", "l">>, val |-> 40],
  [key |-> <<"s", "u", "g", "a", "r">>, val |-> 15],
  [key |-> <<"t", "e", "l", "e", "c", "o", "m">>, val |-> 20],
  [key |-> <<"t", "e", "x", "t", "i", "l", "e">>, val |-> 15],
  [key |-> <<"t", "o", "u", "r", "i", "s", "m">>, val |-> 25],
  [key |-> <<"h", "o", "t", "e", "l">>, val |-> 25],
  [key |-> <<"h", "o", "s", "p", "i", "t", "a", "l", "i", "t", "y">>, val |-> 25],
  [key |-> <<"t", "r", "a", "d", "i", "n", "g">>, val |-> 12],
  [key |-> <<"m", "a", "n", "u", "f", "a", "c", "t", "u", "r", "i", "n", "g">>, val |-> 22],
  [key |-> <<"t", "e", "c", "h", "n", "o", "l", "o", "g", "y">>, val |-> 30],
  [key |-> <<"s", "o", "f", "t", "w", "a", "r", "e">>, val |-> 25]
  >>

\* let exitPE = 20
DefaultExitPE == 20

\* the first key of SECTOR_PE, from position k on, that s includes
RECURSIVE SectorLoop(_, _)
SectorLoop(s, k) ==
  IF k > Len(SECTOR_PE) THEN DefaultExitPE
  ELSE IF includes(s, SECTOR_PE[k].key) THEN SECTOR_PE[k].val
  ELSE SectorLoop(s, k + 1)

\* mutant: the label is matched as it is written
SectorExitPECaseSensitive(sector) ==
  IF sector = <<>> THEN DefaultExitPE ELSE SectorLoop(sector, 1)

\* sector is a string; the empty string (like null) is falsy
SectorExitPE(sector) ==
  IF sector = <<>> THEN DefaultExitPE ELSE SectorLoop(toLowerCase(sector), 1)

\* mutant: the thresholds are compared with <=
McapBandInclusive(marketCapCr) ==
  IF NumLeq(marketCapCr, Int2Num(500))
  THEN [forecastYears |-> 20, discountRate |-> 20, patCagr |-> 25, category |-> "Micro Cap"]
  ELSE IF NumLeq(marketCapCr, Int2Num(5000))
  THEN [forecastYears |-> 20, discountRate |-> 20, patCagr |-> 25, category |-> "Small Cap"]
  ELSE IF NumLeq(marketCapCr, Int2Num(20000))
  THEN [forecastYears |-> 15, discountRate |-> 18, patCagr |-> 18, category |-> "Mid Cap"]
  ELSE IF NumLeq(marketCapCr, Int2Num(50000))
  THEN [forecastYears |-> 15, discountRate |-> 16, patCagr |-> 15, category |-> "Large-Mid Cap"]
  ELSE IF NumLeq(marketCapCr, Int2Num(200000))
  THEN [forecastYears |-> 10, discountRate |-> 15, patCagr |-> 12, category |-> "Large Cap"]
  ELSE [forecastYears |-> 10, discountRate |-> 13, patCagr |-> 10, category |-> "Mega Cap"]

McapBand(marketCapCr) ==
  IF NumLess(marketCapCr, Int2Num(500))
  THEN [forecastYears |-> 20, discountRate |-> 20, patCagr |-> 25, category |-> "Micro Cap"]
  ELSE IF NumLess(marketCapCr, Int2Num(5000))
  THEN [forecastYears |-> 20, discountRate |-> 20, patCagr |-> 25, category |-> "Small Cap"]
  ELSE IF NumLess(marketCapCr, Int2Num(20000))
  THEN [forecastYears |-> 15, discountRate |-> 18, patCagr |-> 18, category |-> "Mid Cap"]
  ELSE IF NumLess(marketCapCr, Int2Num(50000))
  THEN [forecastYears |-> 15, discountRate |-> 16, patCagr |-> 15, category |-> "Large-Mid Cap"]
  ELSE IF NumLess(marketCapCr, Int2Num(200000))
  THEN [forecastYears |-> 10, discountRate |-> 15, patCagr |-> 12, category |-> "Large Cap"]
  ELSE [forecastYears |-> 10, discountRate |-> 13, patCagr |-> 10, category |-> "Mega Cap"]

\* mutant: the expected growth is taken from the discount rate
DefaultsOfCagrAsDiscount(band, exitPE) ==
  [forecastYears |-> Int2Num(band.forecastYears),
   discountRate |-> Int2Num(band.discountRate),
   terminalGrowth |-> Int2Num(4),
   exitPE |-> Int2Num(exitPE),
   expectedPatCagr |-> Int2Num(band.discountRate),
   category |-> band.category]

\* the object returned, lines 139-146
DefaultsOf(band, exitPE) ==
  [forecastYears |-> Int2Num(band.forecastYears),
   discountRate |-> Int2Num(band.discountRate),
   terminalGrowth |-> Int2Num(4),
   exitPE |-> Int2Num(exitPE),
   expectedPatCagr |-> Int2Num(band.patCagr),
   category |-> band.category]

\* A sector that is not a string: an array of strings, which is what a
\* repeated query parameter (?sector=IT&sector=Banks) is parsed to.
IsArray(v) == DOMAIN v = {"array"}

\* the exception a call of a method the value does not have raises
TypeError == [threw |-> "TypeError"]

Threw(r) == DOMAIN r = {"threw"}

\* an array is truthy and has no toLowerCase: line 133 raises
getDefaultAssumptions(marketCapCr, sector) ==
  IF IsArray(sector) THEN TypeError
  ELSE DefaultsOf(McapBand(marketCapCr), SectorExitPE(sector))

\* SECTOR_PE of the front end (src/unnamed/part_000:11-19), in source order
uiSECTOR_PE ==
  <<
  [key |-> <<"O", "i", "l", " ", "&", " ", "G", "a", "s">>, val |-> 10],
  [key |-> <<"I", "T">>, val |-> 22],
  [key |-> <<"B", "a", "n", "k", "s">>, val |-> 15],
  [key |-> <<"N", "B", "F", "C">>, val |-> 20],
  [key |-> <<"F", "M", "C", "G">>, val |-> 45],
  [key |-> <<"P", "h", "a", "r", "m", "a">>, val |-> 30],
  [key |-> <<"H", "e", "a", "l", "t", "h", "c", "a", "r", "e">>, val |-> 30],
  [key |-> <<"A", "u", "t", "o">>, val |-> 20],
  [key |-> <<"C", "o", "n", "s", "u", "m", "e", "r", " ", "D", "u", "r", "a", "b", "l", "e", "s">>, val |-> 35],
  [key |-> <<"C", "h", "e", "m", "i", "c", "a", "l", "s">>, val |-> 25],
  [key |-> <<"C", "a", "p", "i", "t", "a", "l", " ", "G", "o", "o", "d", "s">>, val |-> 25],
  [key |-> <<"C", "e", "m", "e", "n", "t">>, val |-> 25],
  [key |-> <<"C", "o", "n", "s", "t", "r", "u", "c", "t", "i", "o", "n">>, val |-> 18],
  [key |-> <<"D", "i", "v", "e", "r", "s", "i", "f", "i", "e", "d">>, val |-> 20],
  [key |-> <<"E", "n", "e", "r", "g", "y">>, val |-> 12],
  [key |-> <<"F", "i", "n", "a", "n", "c", "i", "a", "l", " ", "S", "e", "r", "v", "i", "c", "e", "s">>, val |-> 18],
  [key |-> <<"I", "n", "s", "u", "r", "a", "n", "c", "e">>, val |-> 35],
  [key |-> <<"I", "n", "f", "r", "a", "s", "t", "r", "u", "c", "t", "u", "r", "e">>, val |-> 15],
  [key |-> <<"L", "o", "g", "i", "s", "t", "i", "c", "s">>, val |-> 25],
  [key |-> <<"M", "e", "d", "i", "a">>, val |-> 25],
  [key |-> <<"M", "e", "t", "a", "l">>, val |-> 12],
  [key |-> <<"P", "o", "w", "e", "r">>, val |-> 10],
  [key |-> <<"R", "e", "a", "l", "t", "y">>, val |-> 15],
  [key |-> <<"R", "e", "t", "a", "i", "l">>, val |-> 40],
  [key |-> <<"T", "e", "l", "e", "c", "o", "m">>, val |-> 20],
  [key |-> <<"T", "e", "x", "t", "i", "l", "e", "s">>, val |-> 15],
  [key |-> <<"T", "e", "c", "h", "n", "o", "l", "o", "g", "y">>, val |-> 30],
  [key |-> <<"M", "a", "n", "u", "f", "a", "c", "t", "u", "r", "i", "n", "g">>, val |-> 22]
  >>

\* for (const [k,v] of Object.entries(SECTOR_PE))
\*   if (s.toLowerCase().includes(k.toLowerCase())) return v;
RECURSIVE uiSectorLoop(_, _)
uiSectorLoop(s, k) ==
  IF k > Len(uiSECTOR_PE) THEN DefaultExitPE
  ELSE IF includes(toLowerCase(s), toLowerCase(uiSECTOR_PE[k].key)) THEN uiSECTOR_PE[k].val
  ELSE uiSectorLoop(s, k + 1)

\* getSectorPE of the front end (src/unnamed/part_000:21-26)
getSectorPE(s) ==
  IF IsArray(s) THEN TypeError
  ELSE IF s = <<>> THEN Int2Num(DefaultExitPE)
  ELSE Int2Num(uiSectorLoop(s, 1))

\* getMcapInfo of the front end (src/unnamed/part_000:28-35)
getMcapInfo(m) ==
  IF NumLess(m, Int2Num(500))
  THEN [label |-> "Micro Cap", fy |-> 20, dr |-> 20, cagr |-> 25, color |-> "#7c3aed"]
  ELSE IF NumLess(m, Int2Num(5000))
  THEN [label |-> "Small Cap", fy |-> 20, dr |-> 20, cagr |-> 25, color |-> "#8b5cf6"]
  ELSE IF NumLess(m, Int2Num(20000))
  THEN [label |-> "Mid Cap", fy |-> 15, dr |-> 18, cagr |-> 18, color |-> "#0891b2"]
  ELSE IF NumLess(m, Int2Num(50000))
  THEN [label |-> "Large-Mid", fy |-> 15, dr |-> 16, cagr |-> 15, color |-> "#0ea5e9"]
  ELSE IF NumLess(m, Int2Num(200000))
  THEN [label |-> "Large Cap", fy |-> 10, dr |-> 15, cagr |-> 12, color |-> "#059669"]
  ELSE [label |-> "Mega Cap", fy |-> 10, dr |-> 13, cagr |-> 10, color |-> "#047857"]

(***************************************************************************)
(* Calls of getDefaultAssumptions on their own (specification              *)
(* SpecDefaults): the market caps lie around the thresholds of the band     *)
(* table, the sector labels hit no key, one key or several keys.           *)
(***************************************************************************)
\* the thresholds of lines 103-111
BandThresholds == {500, 5000, 20000, 50000, 200000}

\* market caps up to CapSpread halves of a crore away from a threshold
CapSpread == 2

DefaultsCaps ==
  {Frac(2 * b + k, 2) : b \in BandThresholds, k \in (-CapSpread)..CapSpread}
    \cup {Int2Num(0), Int2Num(-1), NaN}

\* the value of req.query.sector for ?sector=IT&sector=Banks
SectorArray == [array |-> <<<<"I", "T">>, <<"B", "a", "n", "k", "s">>>>]

SectorLabels ==
  {<<>>,
   <<"I", "n", "d", "i", "a", "n", " ", "I", "T", " ", "S", "e", "r", "v", "i", "c", "e", "s">>,
   <<"F", "M", "C", "G">>,
   <<"P", "r", "i", "v", "a", "t", "e", " ", "B", "a", "n", "k", "s">>,
   <<"C", "a", "p", "i", "t", "a", "l", " ", "G", "o", "o", "d", "s">>,
   <<"C", "o", "n", "s", "u", "m", "e", "r", " ", "D", "u", "r", "a", "b", "l", "e", "s">>,
   <<"S", "h", "i", "p", "p", "i", "n", "g">>,
   <<"S", "o", "f", "t", "w", "a", "r", "e">>}

\* the keys of SECTOR_PE, passed as sector labels
SectorKeys == {SECTOR_PE[k].key : k \in DOMAIN SECTOR_PE}

InitDefaults ==
  /\ \/ dcall \in [called: {FALSE}, marketCapCr: DefaultsCaps, sector: SectorLabels \cup SectorKeys]
     \/ dcall \in [called: {FALSE}, marketCapCr: DefaultsCaps, sector: {SectorArray}]
  /\ vcall = NoCall
  /\ scall = NoCall
  /\ runs = NoCall
  /\ gcall = NoCall
  /\ SolverIdle
  /\ ApiIdle

CallGetDefaultAssumptions ==
  /\ ~dcall.called
  /\ dcall' = [called |-> TRUE,
               marketCapCr |-> dcall.marketCapCr,
               sector |-> dcall.sector,
               ret |-> getDefaultAssumptions(dcall.marketCapCr, dcall.sector),
               uiRet |-> getMcapInfo(dcall.marketCapCr),
               uiExitPE |-> getSectorPE(dcall.sector)]
  /\ UNCHANGED <<apiVars, vcall, scall, runs, gcall, solverVars>>

NextDefaults == CallGetDefaultAssumptions

SpecDefaults == InitDefaults /\ [][NextDefaults]_vars

(***************************************************************************)
(* solveGrowth of the front end (src/unnamed/part_000:53-63), the same     *)
(* bisection on its own bracket: the grid index a stands for the Number    *)
(* -80 + 230 * a / 2^GridBits.  Specification SpecSolvers calls it and the *)
(* back end's solver on the same inputs.                                   *)
(***************************************************************************)
uiBracketLow == -80
uiBracketHigh == 150
uiIterations == 400

uiGridPct(a) ==
  LET f == Lowest(a, GridTop)
  IN NumAdd(Int2Num(uiBracketLow),
            NumMul(Int2Num(uiBracketHigh - uiBracketLow), Frac(f[1], f[2])))

\* Math.round(mid*100)/100
uiRound2(m) == Frac(MathRound(NumMul(uiGridPct(m), Int2Num(100))), 100)

\* const v=calcValue(pat,mid,rPct,n,pe)
uiValueAt(c, m) ==
  calcValue(c.currentPAT, uiGridPct(m), c.discountRatePct, c.forecastPeriod, c.exitPE)

\* the body of the loop with the midpoint m and its value v
uiStepWith(c, st, m, v) ==
  IF IsNum(v) /\ NumLess(NumAbs(NumSub(v, c.marketCap)), NumMul(c.marketCap, Frac(1, 100000)))
  THEN [low |-> st.low, high |-> st.high, done |-> TRUE, ret |-> uiRound2(m)]
  ELSE IF NumLess(v, c.marketCap) THEN Bracket(<<m, st.high>>) ELSE Bracket(<<st.low, m>>)

uiBisectStep(c, st) ==
  IF st.done THEN st
  ELSE LET m == Midpoint(st.low, st.high) IN uiStepWith(c, st, m, uiValueAt(c, m))

\* n iterations of the loop
RECURSIVE uiBisectRun(_, _, _)
uiBisectRun(c, st, n) ==
  IF n = 0 \/ st.done THEN st
  ELSE IF n = 1 THEN uiBisectStep(c, st)
  ELSE uiBisectRun(c, uiBisectRun(c, st, n \div 2), n - (n \div 2))

\* the return inside the loop, or the one after it
uiLoopResult(st) == IF st.done THEN st.ret ELSE uiRound2(Midpoint(st.low, st.high))

solveGrowth(pat, mcap, rPct, n, pe) ==
  IF NumLeq(pat, Int2Num(0)) \/ NumLeq(mcap, Int2Num(0)) \/ NumLeq(pe, Int2Num(0)) THEN Null
  ELSE uiLoopResult(uiBisectRun(SolverCall(pat, mcap, rPct, n, pe),
                                Bracket(<<0, GridTop>>), uiIterations))

\* inputs of the two solvers: degenerate ones, targets below, inside and
\* above what each bracket reproduces
GrowthArgs ==
  [currentPAT: {Int2Num(0), Int2Num(10)},
   marketCap: {Int2Num(0), Int2Num(1), Int2Num(50), Int2Num(300), Int2Num(500), Int2Num(4000)},
   discountRatePct: {Int2Num(15)},
   forecastPeriod: 0..MaxHorizon,
   exitPE: {Int2Num(0), Int2Num(20)}]

InitSolvers ==
  /\ gcall \in [called: {FALSE}, args: GrowthArgs]
  /\ vcall = NoCall
  /\ scall = NoCall
  /\ dcall = NoCall
  /\ runs = NoCall
  /\ SolverIdle
  /\ ApiIdle

CallSolvers ==
  /\ ~gcall.called
  /\ gcall' = [called |-> TRUE,
               args |-> gcall.args,
               ret |-> solveImpliedGrowthRate(gcall.args.currentPAT, gcall.args.marketCap,
                                              gcall.args.discountRatePct,
                                              gcall.args.forecastPeriod, gcall.args.exitPE),
               uiRet |-> solveGrowth(gcall.args.currentPAT, gcall.args.marketCap,
                                     gcall.args.discountRatePct,
                                     gcall.args.forecastPeriod, gcall.args.exitPE)]
  /\ UNCHANGED <<apiVars, vcall, scall, dcall, runs, solverVars>>

NextSolvers == CallSolvers

SpecSolvers == InitSolvers /\ [][NextSolvers]_vars

(***************************************************************************)
(* Several calls of solveImpliedGrowthRate in progress at the same time    *)
(* (specification SpecConcurrent). Each call has its own arguments and its *)
(* own low, high, i (the let and const declarations of lines 61-67 are     *)
(* local to the call); a step of a call is its entry or one iteration of   *)
(* its loop, with the call of calculateImpliedEquityValue it makes, and    *)
(* the steps of the calls are interleaved in every order.                  *)
(***************************************************************************)
\* the number of calls in progress
NumRuns == 2

\* a call that returns the sentinel and calls that stop at their first,
\* second, third and fourth midpoint (55, -17.5, 18.75 and 36.875)
ConcurrentArgs ==
  {[currentPAT |-> Int2Num(0), marketCap |-> Int2Num(300), discountRatePct |-> Int2Num(15),
    forecastPeriod |-> 1, exitPE |-> Int2Num(20)],
   [currentPAT |-> Int2Num(10), marketCap |-> Frac(3255, 10), discountRatePct |-> Int2Num(0),
    forecastPeriod |-> 1, exitPE |-> Int2Num(20)],
   [currentPAT |-> Int2Num(10), marketCap |-> Frac(17325, 100), discountRatePct |-> Int2Num(0),
    forecastPeriod |-> 1, exitPE |-> Int2Num(20)],
   [currentPAT |-> Int2Num(10), marketCap |-> Frac(249375, 1000), discountRatePct |-> Int2Num(0),
    forecastPeriod |-> 1, exitPE |-> Int2Num(20)],
   [currentPAT |-> Int2Num(10), marketCap |-> Frac(309392, 1000), discountRatePct |-> Int2Num(15),
    forecastPeriod |-> 2, exitPE |-> Int2Num(20)]}

\* a call that has not started
RunOf(a) == [pc |-> "entry", args |-> a, low |-> 0, high |-> 0, i |-> 0, ret |-> Unset]

\* line 59, then lines 61-65
RunEnter(r) ==
  IF SolverDegenerate(r.args.currentPAT, r.args.marketCap, r.args.exitPE)
  THEN [r EXCEPT !.pc = "done", !.ret = Null]
  ELSE [r EXCEPT !.pc = "loop", !.low = 0, !.high = GridTop]

\* low = mid or high = mid, line 73 or 74
RunNarrowed(r, b) == [r EXCEPT !.low = b[1], !.high = b[2], !.i = r.i + 1]

\* lines 71-74 with the midpoint m and its value val
RunIterateWith(r, m, val) ==
  IF WithinTolerance(val, r.args.marketCap)
  THEN [r EXCEPT !.ret = Round2(m), !.pc = "done"]
  ELSE RunNarrowed(r, Narrow(val, r.args.marketCap, r.low, r.high, m))

\* lines 68-74 with the midpoint m
RunIterateAt(r, m) == RunIterateWith(r, m, ValueAt(r.args, m))

\* the next step of a call that has not returned
RunStep(r) ==
  IF r.pc = "entry" THEN RunEnter(r)
  ELSE IF r.i < maxIterations THEN RunIterateAt(r, Midpoint(r.low, r.high))
  ELSE [r EXCEPT !.ret = ExhaustResult(r.low, r.high), !.pc = "done"]

\* mutant: low and high are declared outside the function, one pair for
\* all calls
SharedBracket(rs, p, r) ==
  [q \in DOMAIN rs |-> IF q = p THEN r ELSE [rs[q] EXCEPT !.low = r.low, !.high = r.high]]

StepOfCallShared(rs, p) == SharedBracket(rs, p, RunStep(rs[p]))

\* the calls after a step of call p: only the locals of call p change
StepOfCall(rs, p) == [rs EXCEPT ![p] = RunStep(rs[p])]

InitConcurrent ==
  /\ runs \in [1..NumRuns -> {RunOf(a) : a \in ConcurrentArgs}]
  /\ vcall = NoCall
  /\ scall = NoCall
  /\ dcall = NoCall
  /\ gcall = NoCall
  /\ SolverIdle
  /\ ApiIdle

ConcurrentStep ==
  /\ \E p \in DOMAIN runs :
       /\ runs[p].pc # "done"
       /\ runs' = StepOfCall(runs, p)
  /\ UNCHANGED <<apiVars, vcall, scall, dcall, gcall, solverVars>>

NextConcurrent == ConcurrentStep

SpecConcurrent == InitConcurrent /\ [][NextConcurrent]_vars

(***************************************************************************)
(* One call of any of the four functions of the engine (specification      *)
(* SpecCore): the calls of the four specifications above, side by side.    *)
(***************************************************************************)
\* the call record holds the arguments of a call
HasCall(c) == DOMAIN c # {"called"}

InitCore == Init \/ InitValue \/ InitSignal \/ InitDefaults

CoreCallValue == HasCall(vcall) /\ CallValue

CoreCallGetSignal == HasCall(scall) /\ CallGetSignal

CoreCallGetDefaultAssumptions == HasCall(dcall) /\ CallGetDefaultAssumptions

NextCore ==
  \/ SolveEnter
  \/ SolveIterate
  \/ SolveExhaust
  \/ CoreCallValue
  \/ CoreCallGetSignal
  \/ CoreCallGetDefaultAssumptions

SpecCore == InitCore /\ [][NextCore]_vars

(***************************************************************************)
(* analyzeStock (src/dcf-engine.js:164-220) and the expressions the        *)
(* handlers share with it.                                                 *)
(***************************************************************************)
\* JavaScript truthiness of a Number, null or undefined
Falsy(a) == ~IsNum(a) \/ a.sg = 0

\* a || b
OrElse(a, b) == IF Falsy(a) THEN b ELSE a

\* the integer a forecast horizon holds (the horizons used are whole years)
Years(a) == a.sg * NatDiv(a.num, a.den)

\* mutant: the solver's result is subtracted as it is
ExpectationGapNoFallback(expected, impliedGrowthRate) ==
  NumSub(expected, impliedGrowthRate)

\* mutant: no gap is computed when the solver returned its sentinel
ExpectationGapNullWhenUnsolved(expected, impliedGrowthRate) ==
  IF IsNull(impliedGrowthRate) THEN Null ELSE NumSub(expected, impliedGrowthRate)

\* expected - (impliedGrowthRate || 0)
ExpectationGap(expected, impliedGrowthRate) ==
  NumSub(expected, OrElse(impliedGrowthRate, Int2Num(0)))

\* mcapCr > 0 ? ((impliedEquityValue / mcapCr) - 1) * 100 : 0
Upside(impliedEquityValue, mcapCr) ==
  IF NumLess(Int2Num(0), mcapCr)
  THEN NumMul(NumSub(NumDiv(impliedEquityValue, mcapCr), Int2Num(1)), Int2Num(100))
  ELSE Int2Num(0)

generateProjections(currentPAT, growthRatePct, forecastPeriod) ==
  LET g == NumDiv(growthRatePct, Int2Num(100))
  IN [t \in 1..forecastPeriod |->
        [year |-> t, pat |-> NumMul(currentPAT, MathPow(NumAdd(Int2Num(1), g), t))]]

\* The locals of analyzeStock and of the handlers are passed on as
\* parameters, in the order in which the code computes them.

\* the object returned, lines 201-219
AnalysisObject(stockData, mcapCr, defaults, assumptions, impliedGrowthRate, impliedEquityValue, expectationGap) ==
  [symbol |-> stockData.symbol,
   sector |-> stockData.sector,
   cmp |-> stockData.cmp,
   marketCapCr |-> mcapCr,
   currentPAT |-> stockData.currentPAT,
   mcapCategory |-> defaults.category,
   assumptions |-> assumptions,
   results |-> [impliedGrowthRate |-> impliedGrowthRate,
                impliedEquityValue |-> impliedEquityValue,
                expectationGap |-> expectationGap,
                upside |-> Upside(impliedEquityValue, mcapCr),
                signal |-> getSignal(expectationGap)],
   projections |-> generateProjections(stockData.currentPAT,
                                       OrElse(impliedGrowthRate, Int2Num(0)),
                                       Years(assumptions.forecastYears)),
   defaults |-> defaults]

\* lines 192-219
AnalysisOf(stockData, mcapCr, defaults, assumptions, impliedGrowthRate, impliedEquityValue) ==
  AnalysisObject(stockData, mcapCr, defaults, assumptions, impliedGrowthRate,
                 impliedEquityValue,
                 ExpectationGap(assumptions.expectedPatCagr, impliedGrowthRate))

\* lines 176-219
AnalysisUnder(stockData, mcapCr, defaults, assumptions) ==
  AnalysisOf(stockData, mcapCr, defaults, assumptions,
             solveImpliedGrowthRate(stockData.currentPAT, mcapCr, assumptions.discountRate,
                                    Years(assumptions.forecastYears), assumptions.exitPE),
             calculateImpliedEquityValue(stockData.currentPAT, assumptions.expectedPatCagr,
                                         assumptions.discountRate,
                                         Years(assumptions.forecastYears),
                                         assumptions.exitPE))

\* lines 168-219
AnalysisWith(stockData, customAssumptions, mcapCr, defaults) ==
  AnalysisUnder(stockData, mcapCr, defaults,
    [forecastYears |-> OrElse(customAssumptions.forecastYears, defaults.forecastYears),
     discountRate |-> OrElse(customAssumptions.discountRate, defaults.discountRate),
     terminalGrowth |-> OrElse(customAssumptions.terminalGrowth, defaults.terminalGrowth),
     exitPE |-> OrElse(customAssumptions.exitPE, defaults.exitPE),
     expectedPatCagr |-> OrElse(customAssumptions.expectedPatCagr, defaults.expectedPatCagr)])

analyzeStock(stockData, customAssumptions) ==
  LET mcapCr == OrElse(stockData.marketCapCr,
                       NumMul(stockData.cmp, stockData.sharesOutstandingCr))
  IN AnalysisWith(stockData, customAssumptions, mcapCr,
                  getDefaultAssumptions(mcapCr, stockData.sector))

(***************************************************************************)
(* The database (db.js) and the handlers: POST /api/calculate-dcf          *)
(* (src/server.js:47-72) and the watchlist routes (routes/watchlist.js).   *)
(* Timestamps and the display name of a stock are left out of the rows.    *)
(***************************************************************************)
\* rows of the stocks table: a loss-making company, a listing whose price
\* has not been fetched yet (the columns default to 0), a profitable bank,
\* a large company that broke even
STOCKS ==
  {[symbol |-> <<"L", "O", "S", "S">>, sector |-> <<"R", "e", "t", "a", "i", "l">>,
    cmp |-> Int2Num(10), market_cap_cr |-> Int2Num(300),
    shares_outstanding_cr |-> Int2Num(30), pat_fy_cr |-> Int2Num(-5)],
   [symbol |-> <<"N", "E", "W">>, sector |-> <<>>,
    cmp |-> Int2Num(0), market_cap_cr |-> Int2Num(0),
    shares_outstanding_cr |-> Int2Num(0), pat_fy_cr |-> Int2Num(10)],
   [symbol |-> <<"B", "A", "N", "K">>,
    sector |-> <<"P", "r", "i", "v", "a", "t", "e", " ", "B", "a", "n", "k", "s">>,
    cmp |-> Int2Num(93), market_cap_cr |-> Int2Num(651),
    shares_outstanding_cr |-> Int2Num(7), pat_fy_cr |-> Int2Num(23)],
   [symbol |-> <<"Z", "E", "R", "O">>, sector |-> <<"P", "o", "w", "e", "r">>,
    cmp |-> Int2Num(600), market_cap_cr |-> Int2Num(60000),
    shares_outstanding_cr |-> Int2Num(100), pat_fy_cr |-> Int2Num(0)]}

\* SELECT * FROM stocks WHERE symbol = ?
StockRows(symbol) == {s \in STOCKS : s.symbol = symbol}

\* the stockData object built from a stocks row
StockDataOf(stock) ==
  [symbol |-> stock.symbol,
   sector |-> stock.sector,
   cmp |-> stock.cmp,
   marketCapCr |-> stock.market_cap_cr,
   sharesOutstandingCr |-> stock.shares_outstanding_cr,
   currentPAT |-> stock.pat_fy_cr]

USERS == {"A", "B"}

\* the Default watchlist that registration creates for each user
DefaultWatchlists ==
  {[id |-> "wA", user_id |-> "A", name |-> "Default"],
   [id |-> "wB", user_id |-> "B", name |-> "Default"]}

\* the most requests a behaviour serves
MaxRequests == 2

\* uuid(): an id no earlier request has drawn
NewId == nreq + 1

\* customAssumptions objects: a field that is not supplied is undefined
NoCustom ==
  [forecastYears |-> Undefined, discountRate |-> Undefined, terminalGrowth |-> Undefined,
   exitPE |-> Undefined, expectedPatCagr |-> Undefined]

OneYearCustom ==
  [forecastYears |-> Int2Num(1), discountRate |-> Int2Num(15), terminalGrowth |-> Undefined,
   exitPE |-> Int2Num(20), expectedPatCagr |-> Int2Num(60)]

\* ?forecastYears=1&discountRate=15&exitPE=20&expectedPatCagr=0: a query
\* string "0" is truthy and parseFloat("0") is 0
ZeroGrowthCustom ==
  [forecastYears |-> Int2Num(1), discountRate |-> Int2Num(15), terminalGrowth |-> Undefined,
   exitPE |-> Int2Num(20), expectedPatCagr |-> Int2Num(0)]

AnalyzeInputs ==
  {<<s, c>> \in STOCKS \X {NoCustom, OneYearCustom, ZeroGrowthCustom} :
     /\ c = NoCustom => s.symbol # <<"B", "A", "N", "K">>
     /\ c = ZeroGrowthCustom => s.symbol = <<"B", "A", "N", "K">>
     /\ c = OneYearCustom => s.symbol # <<"Z", "E", "R", "O">>}

AnalyzeStock ==
  /\ nreq < MaxRequests
  /\ \E inp \in AnalyzeInputs :
       resp' = [route |-> "analyzeStock",
                customAssumptions |-> inp[2],
                body |-> analyzeStock(StockDataOf(inp[1]), inp[2])]
  /\ nreq' = nreq + 1
  /\ UNCHANGED <<callVars, solverVars, watchlists, items>>

\* the request of the documented example (ValueLens_Setup_Guide.md:334-345)
GuideExample ==
  [currentPAT |-> Int2Num(1737), marketCap |-> Int2Num(93800), discountRate |-> Int2Num(15),
   forecastYears |-> Int2Num(10), exitPE |-> Int2Num(45), expectedPatCagr |-> Int2Num(13)]

\* request bodies of POST /api/calculate-dcf
DcfBodies ==
  {GuideExample,
   [currentPAT |-> Int2Num(23), marketCap |-> Int2Num(651), discountRate |-> Int2Num(15),
    forecastYears |-> Int2Num(1), exitPE |-> Int2Num(20), expectedPatCagr |-> Int2Num(60)],
   [currentPAT |-> Int2Num(23), marketCap |-> Int2Num(651), discountRate |-> Int2Num(15),
    forecastYears |-> Int2Num(1), exitPE |-> Int2Num(20), expectedPatCagr |-> Undefined],
   [currentPAT |-> Int2Num(0), marketCap |-> Int2Num(651), discountRate |-> Int2Num(15),
    forecastYears |-> Int2Num(2), exitPE |-> Int2Num(20), expectedPatCagr |-> Int2Num(13)],
   [currentPAT |-> Int2Num(23), marketCap |-> Int2Num(0), discountRate |-> Int2Num(15),
    forecastYears |-> Int2Num(2), exitPE |-> Int2Num(20), expectedPatCagr |-> Frac(45, 10)]}

\* the body sent, lines 62-68
DcfBody(b, impliedGrowth, impliedValue, expectationGap) ==
  [impliedGrowthRate |-> impliedGrowth,
   impliedEquityValue |-> impliedValue,
   expectationGap |-> expectationGap,
   upside |-> Upside(impliedValue, b.marketCap),
   signal |-> getSignal(expectationGap)]

\* lines 59-68
DcfOf(b, impliedGrowth, impliedValue) ==
  DcfBody(b, impliedGrowth, impliedValue, ExpectationGap(b.expectedPatCagr, impliedGrowth))

CalculateDcf(b) ==
  DcfOf(b,
        solveImpliedGrowthRate(b.currentPAT, b.marketCap, b.discountRate,
                               Years(b.forecastYears), b.exitPE),
        calculateImpliedEquityValue(b.currentPAT, b.expectedPatCagr, b.discountRate,
                                    Years(b.forecastYears), b.exitPE))

\* the handler reads nothing but its request: the response to each body
DcfResponses ==
  {[route |-> "POST /api/calculate-dcf", status |-> 200, req |-> b,
    body |-> CalculateDcf(b)] : b \in DcfBodies}

PostCalculateDcf ==
  /\ nreq < MaxRequests
  /\ resp' \in DcfResponses
  /\ nreq' = nreq + 1
  /\ UNCHANGED <<callVars, solverVars, watchlists, items>>

\* SELECT * FROM watchlists WHERE id = ? AND user_id = ?
OwnedWatchlists(watchlistId, userId) ==
  {w \in watchlists : w.id = watchlistId /\ w.user_id = userId}

\* request bodies of POST /:watchlistId/items; notes is <<>> when it is not
\* supplied
ItemBodies ==
  {[symbol |-> <<"L", "O", "S", "S">>, forecastYears |-> Undefined,
    discountRate |-> Undefined, terminalGrowth |-> Undefined, exitPE |-> Undefined,
    expectedPatCagr |-> Undefined, notes |-> <<>>],
   [symbol |-> <<"l", "o", "s", "s">>, forecastYears |-> Int2Num(2),
    discountRate |-> Int2Num(15), terminalGrowth |-> Int2Num(0), exitPE |-> Int2Num(20),
    expectedPatCagr |-> Int2Num(30), notes |-> <<"turnaround">>],
   [symbol |-> <<"b", "a", "n", "k">>, forecastYears |-> Int2Num(1),
    discountRate |-> Int2Num(15), terminalGrowth |-> Undefined, exitPE |-> Int2Num(20),
    expectedPatCagr |-> Int2Num(60), notes |-> <<>>],
   [symbol |-> <<"N", "O", "N", "E">>, forecastYears |-> Undefined,
    discountRate |-> Undefined, terminalGrowth |-> Undefined, exitPE |-> Undefined,
    expectedPatCagr |-> Undefined, notes |-> <<>>]}

\* notes || ''
NotesOrEmpty(notes) == IF notes = <<>> THEN "" ELSE notes[1]

\* the columns of a watchlist_items row
ItemRow(id, watchlistId, symbol, a, impliedGrowth, impliedValue, gap, notes) ==
  [id |-> id,
   watchlist_id |-> watchlistId,
   symbol |-> symbol,
   forecast_years |-> a.fy,
   discount_rate |-> a.dr,
   terminal_growth |-> a.tg,
   exit_pe |-> a.pe,
   expected_pat_cagr |-> a.ec,
   implied_growth_rate |-> impliedGrowth,
   implied_equity_value |-> impliedValue,
   expectation_gap |-> gap,
   signal |-> getSignal(gap),
   notes |-> notes]

\* const gap = ec - (impliedGrowth || 0), and the row with it
ItemOf(id, watchlistId, symbol, a, impliedGrowth, impliedValue, notes) ==
  ItemRow(id, watchlistId, symbol, a, impliedGrowth, impliedValue,
          ExpectationGap(a.ec, impliedGrowth), notes)

\* the solve and the valuation of a stock under the assumptions a, and the
\* row with them
ItemUnder(id, watchlistId, symbol, stock, a, notes) ==
  ItemOf(id, watchlistId, symbol, a,
         solveImpliedGrowthRate(stock.pat_fy_cr, stock.market_cap_cr, a.dr, Years(a.fy), a.pe),
         calculateImpliedEquityValue(stock.pat_fy_cr, a.ec, a.dr, Years(a.fy), a.pe),
         notes)

\* fy, dr, tg, pe, ec: the request's value || the default
ItemAssumptions(b, defaults) ==
  [fy |-> OrElse(b.forecastYears, defaults.forecastYears),
   dr |-> OrElse(b.discountRate, defaults.discountRate),
   tg |-> OrElse(b.terminalGrowth, defaults.terminalGrowth),
   pe |-> OrElse(b.exitPE, defaults.exitPE),
   ec |-> OrElse(b.expectedPatCagr, defaults.expectedPatCagr)]

\* the row POST /:watchlistId/items writes
NewItem(id, watchlistId, stock, b) ==
  ItemUnder(id, watchlistId, toUpperCase(b.symbol), stock,
            ItemAssumptions(b, getDefaultAssumptions(stock.market_cap_cr, stock.sector)),
            NotesOrEmpty(b.notes))

\* mutant: a plain INSERT into a table without the UNIQUE constraint
InsertOnly(rows, row) == rows \cup {row}

\* INSERT OR REPLACE under UNIQUE(watchlist_id, symbol): the rows that
\* conflict with the new one are deleted
InsertOrReplace(rows, row) ==
  {r \in rows : ~(r.watchlist_id = row.watchlist_id /\ r.symbol = row.symbol)
                /\ r.id # row.id}
  \cup {row}

\* the row is written and its id sent
ItemInserted(req, row) ==
  /\ items' = InsertOrReplace(items, row)
  /\ resp' = [route |-> "POST /:watchlistId/items", status |-> 200, req |-> req,
              body |-> [id |-> row.id, symbol |-> row.symbol,
                        message |-> "Added to watchlist"]]

PostWatchlistItem ==
  /\ nreq < MaxRequests
  /\ \E userId \in USERS, watchlistId \in {"wA"}, b \in ItemBodies :
       LET req == [userId |-> userId, watchlistId |-> watchlistId, body |-> b]
       IN IF OwnedWatchlists(watchlistId, userId) = {}
          THEN /\ resp' = [route |-> "POST /:watchlistId/items", status |-> 404, req |-> req,
                           body |-> [error |-> "Watchlist not found"]]
               /\ items' = items
          ELSE IF StockRows(toUpperCase(b.symbol)) = {}
          THEN /\ resp' = [route |-> "POST /:watchlistId/items", status |-> 404, req |-> req,
                           body |-> [error |-> "Stock not found"]]
               /\ items' = items
          ELSE LET stock == CHOOSE s \in StockRows(toUpperCase(b.symbol)) : TRUE
               IN ItemInserted(req, NewItem(NewId, watchlistId, stock, b))
  /\ nreq' = nreq + 1
  /\ UNCHANGED <<callVars, solverVars, watchlists>>

\* request bodies of PUT /:watchlistId/items/:itemId
UpdateBodies ==
  {[forecastYears |-> Undefined, discountRate |-> Undefined, terminalGrowth |-> Undefined,
    exitPE |-> Undefined, expectedPatCagr |-> Int2Num(8), notes |-> <<"trimmed">>]}

\* the item joined with its stocks row: WHERE wi.id = ? AND wi.watchlist_id = ?
JoinedItems(itemId, watchlistId) ==
  {<<it, s>> \in items \X STOCKS :
     it.symbol = s.symbol /\ it.id = itemId /\ it.watchlist_id = watchlistId}

\* fy, dr, tg, pe, ec: the request's value || the stored one
UpdateAssumptions(b, item) ==
  [fy |-> OrElse(b.forecastYears, item.forecast_years),
   dr |-> OrElse(b.discountRate, item.discount_rate),
   tg |-> OrElse(b.terminalGrowth, item.terminal_growth),
   pe |-> OrElse(b.exitPE, item.exit_pe),
   ec |-> OrElse(b.expectedPatCagr, item.expected_pat_cagr)]

\* the row PUT /:watchlistId/items/:itemId leaves in place of item;
\* notes = COALESCE(?, notes)
UpdatedItem(item, stock, b) ==
  ItemUnder(item.id, item.watchlist_id, item.symbol, stock, UpdateAssumptions(b, item),
            IF b.notes = <<>> THEN item.notes ELSE b.notes[1])

\* the row replaces the item and the new figures are sent
ItemReplaced(req, row) ==
  /\ items' = {IF it.id = req.itemId THEN row ELSE it : it \in items}
  /\ resp' = [route |-> "PUT /:watchlistId/items/:itemId", status |-> 200, req |-> req,
              body |-> [message |-> "Updated",
                        impliedGrowth |-> row.implied_growth_rate,
                        expectationGap |-> row.expectation_gap]]

\* the handler has no ownership check: any authenticated user may call it
PutWatchlistItem ==
  /\ nreq < MaxRequests
  /\ \E userId \in USERS, watchlistId \in {"wA"},
        itemId \in {it.id : it \in items} \cup {0}, b \in UpdateBodies :
       LET req == [userId |-> userId, watchlistId |-> watchlistId, itemId |-> itemId,
                   body |-> b]
       IN IF JoinedItems(itemId, watchlistId) = {}
          THEN /\ resp' = [route |-> "PUT /:watchlistId/items/:itemId", status |-> 404,
                           req |-> req, body |-> [error |-> "Item not found"]]
               /\ items' = items
          ELSE LET j == CHOOSE x \in JoinedItems(itemId, watchlistId) : TRUE
               IN ItemReplaced(req, UpdatedItem(j[1], j[2], b))
  /\ nreq' = nreq + 1
  /\ UNCHANGED <<callVars, solverVars, watchlists>>

\* a row of SELECT wi.*, s.sector, s.cmp, s.market_cap_cr, s.pat_fy_cr
JoinedRow(item, stock) ==
  [id |-> item.id,
   watchlist_id |-> item.watchlist_id,
   symbol |-> item.symbol,
   forecast_years |-> item.forecast_years,
   discount_rate |-> item.discount_rate,
   terminal_growth |-> item.terminal_growth,
   exit_pe |-> item.exit_pe,
   expected_pat_cagr |-> item.expected_pat_cagr,
   implied_growth_rate |-> item.implied_growth_rate,
   implied_equity_value |-> item.implied_equity_value,
   expectation_gap |-> item.expectation_gap,
   signal |-> item.signal,
   notes |-> item.notes,
   sector |-> stock.sector,
   cmp |-> stock.cmp,
   market_cap_cr |-> stock.market_cap_cr,
   pat_fy_cr |-> stock.pat_fy_cr,
   upside |-> Undefined]

\* { ...item, implied_growth_rate, implied_equity_value, expectation_gap, signal, upside }
Recalculated(joined, mcapCr, impliedGrowth, impliedValue, expectationGap) ==
  [joined EXCEPT !.implied_growth_rate = impliedGrowth,
                 !.implied_equity_value = impliedValue,
                 !.expectation_gap = expectationGap,
                 !.signal = getSignal(expectationGap),
                 !.upside = Upside(impliedValue, mcapCr)]

\* const expectationGap = item.expected_pat_cagr - (impliedGrowth || 0)
RecalculatedOf(joined, mcapCr, impliedGrowth, impliedValue) ==
  Recalculated(joined, mcapCr, impliedGrowth, impliedValue,
               ExpectationGap(joined.expected_pat_cagr, impliedGrowth))

\* the solve and the valuation at the latest market cap
RecalculatedAt(joined, mcapCr) ==
  RecalculatedOf(joined, mcapCr,
                 solveImpliedGrowthRate(joined.pat_fy_cr, mcapCr, joined.discount_rate,
                                        Years(joined.forecast_years), joined.exit_pe),
                 calculateImpliedEquityValue(joined.pat_fy_cr, joined.expected_pat_cagr,
                                             joined.discount_rate,
                                             Years(joined.forecast_years), joined.exit_pe))

\* an item of GET /:watchlistId/items: recalculated when the profit is
\* positive; shares_outstanding_cr is not selected, so (... || 0) is 0
EnrichedItem(item, stock) ==
  IF NumLess(Int2Num(0), stock.pat_fy_cr)
  THEN RecalculatedAt(JoinedRow(item, stock),
                      OrElse(stock.market_cap_cr, NumMul(stock.cmp, Int2Num(0))))
  ELSE JoinedRow(item, stock)

GetWatchlistItems ==
  /\ nreq < MaxRequests
  /\ \E userId \in USERS, watchlistId \in {"wA"} :
       LET req == [userId |-> userId, watchlistId |-> watchlistId]
       IN IF OwnedWatchlists(watchlistId, userId) = {}
          THEN resp' = [route |-> "GET /:watchlistId/items", status |-> 404, req |-> req,
                        body |-> [error |-> "Watchlist not found"]]
          ELSE resp' = [route |-> "GET /:watchlistId/items", status |-> 200, req |-> req,
                        body |-> {EnrichedItem(j[1], j[2]) :
                                    j \in {x \in items \X STOCKS :
                                             x[1].symbol = x[2].symbol
                                             /\ x[1].watchlist_id = watchlistId}}]
  /\ nreq' = nreq + 1
  /\ UNCHANGED <<callVars, solverVars, watchlists, items>>

\* DELETE /:watchlistId/items/:itemId; the handler has no ownership check
DeleteWatchlistItem ==
  /\ nreq < MaxRequests
  /\ \E userId \in USERS, watchlistId \in {"wA", "wB"},
        itemId \in {it.id : it \in items} \cup {0} :
       /\ items' = {it \in items : ~(it.id = itemId /\ it.watchlist_id = watchlistId)}
       /\ resp' = [route |-> "DELETE /:watchlistId/items/:itemId", status |-> 200,
                   req |-> [userId |-> userId, watchlistId |-> watchlistId,
                            itemId |-> itemId],
                   body |-> [message |-> "Removed"]]
  /\ nreq' = nreq + 1
  /\ UNCHANGED <<callVars, solverVars, watchlists>>

\* DELETE /:watchlistId: the items are deleted by watchlist id alone, the
\* watchlist by id and owner
DeleteWatchlist ==
  /\ nreq < MaxRequests
  /\ \E userId \in USERS, watchlistId \in {"wA"} :
       /\ items' = {it \in items : it.watchlist_id # watchlistId}
       /\ watchlists' = {w \in watchlists : ~(w.id = watchlistId /\ w.user_id = userId)}
       /\ resp' = [route |-> "DELETE /:watchlistId", status |-> 200,
                   req |-> [userId |-> userId, watchlistId |-> watchlistId],
                   body |-> [message |-> "Deleted"]]
  /\ nreq' = nreq + 1
  /\ UNCHANGED <<callVars, solverVars>>

\* the id of a row written before the behaviour starts
SeedId == -1

\* the request that wrote it
SeedBody ==
  [symbol |-> <<"B", "A", "N", "K">>, forecastYears |-> Int2Num(1),
   discountRate |-> Int2Num(15), terminalGrowth |-> Undefined, exitPE |-> Int2Num(20),
   expectedPatCagr |-> Int2Num(40), notes |-> <<"core">>]

\* the row user A's POST /wA/items with SeedBody wrote
SeedItem ==
  NewItem(SeedId, "wA", CHOOSE s \in StockRows(SeedBody.symbol) : TRUE, SeedBody)

\* both users are registered, each with the Default watchlist; user A's is
\* empty or holds one item
InitApi ==
  /\ watchlists = DefaultWatchlists
  /\ items \in {{}, {SeedItem}}
  /\ resp = NoResponse
  /\ nreq = 0
  /\ vcall = NoCall
  /\ scall = NoCall
  /\ dcall = NoCall
  /\ runs = NoCall
  /\ gcall = NoCall
  /\ SolverIdle

NextApi ==
  \/ AnalyzeStock
  \/ PostCalculateDcf
  \/ PostWatchlistItem
  \/ PutWatchlistItem
  \/ DeleteWatchlistItem
  \/ DeleteWatchlist
  \/ GetWatchlistItems

SpecApi == InitApi /\ [][NextApi]_vars

(***************************************************************************)
(* Properties of the solver (specification Spec).                          *)
(***************************************************************************)
Positive(x) == NumLess(Int2Num(0), x)

SolverInputsPositive ==
  Positive(args.currentPAT) /\ Positive(args.marketCap) /\ Positive(args.exitPE)

\* the growth rate that reproduces the target lies in [-90, 200]
RootInBracket ==
  /\ NumLeq(ValueAt(args, 0), args.marketCap)
  /\ NumLeq(args.marketCap, ValueAt(args, GridTop))

RoundTripCase ==
  /\ pc = "done"
  /\ SolverInputsPositive
  /\ args.forecastPeriod \in 1..30
  /\ RootInBracket

\* the claim's tolerance: |v - target| < target * 1e-5
WithinClaimTolerance(v, target) ==
  NumLess(NumAbs(NumSub(v, target)), NumDiv(target, Int2Num(100000)))

\* C1 as stated: the value at the returned (2-decimal) growth rate is within
\* target * 1e-5 of the target whenever the root lies in the bracket.
C1_RoundTripAtReturnedRate ==
  RoundTripCase =>
    WithinClaimTolerance(
      calculateImpliedEquityValue(args.currentPAT, ret, args.discountRatePct,
                                  args.forecastPeriod, args.exitPE),
      args.marketCap)

\* C1 amended: whenever the root lies in the bracket the solver stops before
\* its iterations run out, at a midpoint whose value is within target * 1e-5
\* of the target, and returns that midpoint rounded to 2 decimals (so the
\* returned rate is within 0.005 of it).
C1_RoundTripAtMidpoint ==
  RoundTripCase =>
    /\ i < maxIterations
    /\ WithinClaimTolerance(ValueAt(args, mid), args.marketCap)
    /\ IsNum(ret)
    /\ NumLeq(NumAbs(NumSub(ret, GridPct(mid))), Frac(5, 1000))
    /\ NumEq(NumMul(ret, Int2Num(100)), Int2Num(MathRound(NumMul(ret, Int2Num(100)))))

C1_Witness ==
  /\ RoundTripCase
  /\ evals > 1
  /\ IsNum(ret)
  /\ ~NumEq(ret, GridPct(mid))

\* C2: with currentPAT <= 0 or targetEquityValue <= 0 or exitMultiple <= 0 the
\* solver returns the sentinel and never evaluates the valuation function.
C2_SentinelOnDegenerateInput ==
  (pc # "idle" /\ ~SolverInputsPositive) =>
    /\ evals = 0
    /\ pc # "loop"
    /\ pc = "done" => IsNull(ret)

C2_Witness ==
  /\ pc = "done"
  /\ Positive(args.currentPAT)
  /\ Positive(args.exitPE)
  /\ ~Positive(args.marketCap)
  /\ args.forecastPeriod >= 1
  /\ IsNull(ret)

\* C4: with forecastYears <= 0 and positive profit, target and exit multiple
\* the solver yields the sentinel, not a growth rate.
C4_SentinelOnNonPositiveHorizon ==
  (pc = "done" /\ SolverInputsPositive /\ args.forecastPeriod <= 0) => IsNull(ret)

(***************************************************************************)
(* Properties of the valuation function (specification SpecValue).         *)
(***************************************************************************)
ValueCallDegenerate ==
  \/ ~Positive(vcall.args.currentPAT)
  \/ ~Positive(vcall.args.exitPE)
  \/ vcall.args.forecastPeriod <= 0

IsZero(x) == IsNum(x) /\ x.sg = 0

\* C3: calculateImpliedEquityValue (and the front end's calcValue) returns
\* exactly 0 when currentPAT <= 0 or exitMultiple <= 0 or forecastYears <= 0.
C3_ZeroOnDegenerateInput ==
  (vcall.called /\ ValueCallDegenerate) => IsZero(vcall.ret) /\ IsZero(vcall.uiRet)

C3_Witness ==
  /\ vcall.called
  /\ Positive(vcall.args.currentPAT)
  /\ Positive(vcall.args.exitPE)
  /\ vcall.args.forecastPeriod <= 0
  /\ ~IsZero(vcall.args.growthRatePct)
  /\ IsZero(vcall.ret)

PracticalGrowth ==
  {Frac(k, 1000) : k \in {m \in GrowthMilli : BracketLow * 1000 <= m /\ m <= BracketHigh * 1000}}

MonotonicityCase ==
  vcall.called /\ ~ValueCallDegenerate /\ vcall.args.growthRatePct \in PracticalGrowth

\* the value at the call's growth rate is below the value at every larger rate of the range
BelowEveryLargerRate ==
  \A g2 \in PracticalGrowth :
    NumLess(vcall.args.growthRatePct, g2) =>
      NumLess(vcall.ret, ValueOf([vcall.args EXCEPT !.growthRatePct = g2]))

\* C5 as stated: for profit > 0, any discount rate, horizon >= 1 and exit
\* multiple > 0 the value is strictly increasing in the growth rate over
\* [-90, 200], on either side of the near-equal-rates branch.
C5_StrictlyIncreasingInGrowth ==
  MonotonicityCase => BelowEveryLargerRate

\* C5 amended: the same for every discount rate above -100%.
C5_StrictlyIncreasingAboveMinusHundred ==
  (MonotonicityCase /\ NumLess(Int2Num(-100), vcall.args.discountRatePct)) =>
    BelowEveryLargerRate

RatesNearEqual(a) ==
  NumLess(NumAbs(NumSub(a.discountRatePct, a.growthRatePct)), Frac(1, 100))

\* a call in the summation branch with a larger rate of the range in the closed-form branch
C5_Witness ==
  /\ vcall.called
  /\ ~ValueCallDegenerate
  /\ vcall.args.growthRatePct \in PracticalGrowth
  /\ RatesNearEqual(vcall.args)
  /\ \E g2 \in PracticalGrowth :
       /\ NumLess(vcall.args.growthRatePct, g2)
       /\ ~RatesNearEqual([vcall.args EXCEPT !.growthRatePct = g2])
       /\ NumLess(g2, NumAdd(vcall.args.growthRatePct, Frac(1, 10)))

\* PAT * x^t summed over t = from..n
RECURSIVE RefStream(_, _, _, _)
RefStream(pat, x, from, n) ==
  IF from > n THEN Int2Num(0)
  ELSE NumAdd(NumMul(pat, PowNat(x, from)), RefStream(pat, x, from + 1, n))

\* sum over t = 1..n of PAT*(1+g)^t/(1+r)^t  +  PAT*(1+g)^n*exitMultiple/(1+r)^n
ReferenceValue(a) ==
  LET x == NumDiv(NumAdd(Int2Num(100), a.growthRatePct),
                  NumAdd(Int2Num(100), a.discountRatePct))
  IN NumAdd(RefStream(a.currentPAT, x, 1, a.forecastPeriod),
            NumMul(NumMul(a.currentPAT, PowNat(x, a.forecastPeriod)), a.exitPE))

\* C6: for profit > 0, exit multiple > 0 and horizon n >= 1 the value equals
\* the reference sum in both branches, and is a number.
C6_BothBranchesEqualReference ==
  (vcall.called /\ ~ValueCallDegenerate) =>
    IsNum(vcall.ret) /\ NumEq(vcall.ret, ReferenceValue(vcall.args))

\* a call that takes the closed form just outside the summation branch
C6_Witness ==
  /\ vcall.called
  /\ ~ValueCallDegenerate
  /\ vcall.args.forecastPeriod >= 2
  /\ ~RatesNearEqual(vcall.args)
  /\ NumLess(NumAbs(NumSub(vcall.args.discountRatePct, vcall.args.growthRatePct)),
             Frac(2, 100))
  /\ NumEq(vcall.ret, ReferenceValue(vcall.args))

\* C7 as stated: the value is non-negative for every input.
C7_NonNegativeEverywhere ==
  vcall.called => NumLeq(Int2Num(0), vcall.ret)

\* C7 amended: the value is non-negative whenever the growth rate is at least
\* -100% and the discount rate is above -100%.
C7_NonNegativeAboveMinusHundred ==
  (/\ vcall.called
   /\ NumLeq(Int2Num(-100), vcall.args.growthRatePct)
   /\ NumLess(Int2Num(-100), vcall.args.discountRatePct)) =>
    NumLeq(Int2Num(0), vcall.ret)

C7_Witness ==
  /\ vcall.called
  /\ ~ValueCallDegenerate
  /\ NumLeq(Int2Num(-100), vcall.args.growthRatePct)
  /\ NumLess(vcall.args.growthRatePct, vcall.args.discountRatePct)
  /\ vcall.args.forecastPeriod >= 2
  /\ Positive(vcall.ret)

(***************************************************************************)
(* Properties of getSignal (specification SpecSignal).                     *)
(***************************************************************************)
GapIs(k, d) == NumEq(scall.gap, Frac(k, d))

\* the label the claim's bands give a numeric gap
BandLabel(gap) ==
  CASE NumLess(Int2Num(5), gap) -> "Strong Buy"
    [] NumLess(Int2Num(2), gap) /\ NumLeq(gap, Int2Num(5)) -> "Buy"
    [] NumLess(gap, Int2Num(-5)) -> "Sell"
    [] NumLeq(Int2Num(-5), gap) /\ NumLess(gap, Int2Num(-2)) -> "Caution"
    [] OTHER -> "Hold"

\* C8: null/undefined -> 'N/A'; > 5 -> 'Strong Buy'; > 2 -> 'Buy'; < -5 -> 'Sell';
\* < -2 -> 'Caution'; otherwise 'Hold' (first match); 5.01 -> 'Strong Buy',
\* -2.0 -> 'Hold', -2.01 -> 'Caution'; a numeric gap never maps to 'N/A'.
C8_SignalBands ==
  scall.called =>
    /\ (IsNull(scall.gap) \/ IsUndefined(scall.gap)) => scall.ret = "N/A"
    /\ IsNum(scall.gap) => scall.ret = BandLabel(scall.gap)
    /\ IsNum(scall.gap) => scall.ret \in {"Strong Buy", "Buy", "Hold", "Caution", "Sell"}
    /\ GapIs(501, 100) => scall.ret = "Strong Buy"
    /\ GapIs(-2, 1) => scall.ret = "Hold"
    /\ GapIs(-201, 100) => scall.ret = "Caution"
    /\ scall.uiRet.t = scall.ret

C8_Witness ==
  /\ scall.called
  /\ GapIs(-201, 100)
  /\ scall.ret = "Caution"

\* C9 as stated: a gap of exactly 5.0 is classified 'Hold'.
C9_FiveIsHold ==
  (scall.called /\ GapIs(5, 1)) => scall.ret = "Hold"

\* C9 amended: a gap of exactly 5.0 is classified 'Buy' (not 'Strong Buy',
\* because the threshold is strict > 5; it exceeds the Buy threshold 2).
C9_FiveIsBuy ==
  (scall.called /\ GapIs(5, 1)) => scall.ret = "Buy"

C9_Witness ==
  /\ scall.called
  /\ GapIs(5, 1)
  /\ scall.ret = "Buy"

(***************************************************************************)
(* Properties of the handlers (specification SpecApi).                     *)
(***************************************************************************)
\* the gap computed from an expected growth that is a number and the
\* solver's result: expected - implied, and expected itself when the solver
\* returned its sentinel
GapRule(expected, implied, gap) ==
  /\ IsNum(gap)
  /\ IF IsNull(implied) \/ IsUndefined(implied)
     THEN NumEq(gap, expected)
     ELSE IsNum(implied) /\ NumEq(gap, NumSub(expected, implied))

AnalysisSent == resp.route = "analyzeStock"

DcfSent == resp.route = "POST /api/calculate-dcf"

ItemsSent == resp.route = "GET /:watchlistId/items" /\ resp.status = 200

ItemUpdated == resp.route = "PUT /:watchlistId/items/:itemId" /\ resp.status = 200

ItemAdded == resp.route = "POST /:watchlistId/items" /\ resp.status = 200

\* C10: expectation gap = expected growth - solver-implied growth, and when
\* the solver returned its sentinel the gap equals the expected growth and is
\* a number; in analyzeStock, in POST /api/calculate-dcf (for a request that
\* supplies the expected growth as a number) and in the watchlist routes
\* (the rows written by POST and PUT, the body of PUT, the items of GET).
C10_GapIsExpectedMinusImplied ==
  /\ AnalysisSent =>
       GapRule(resp.body.assumptions.expectedPatCagr,
               resp.body.results.impliedGrowthRate,
               resp.body.results.expectationGap)
  /\ (DcfSent /\ IsNum(resp.req.expectedPatCagr)) =>
       GapRule(resp.req.expectedPatCagr, resp.body.impliedGrowthRate,
               resp.body.expectationGap)
  /\ \A it \in items :
       GapRule(it.expected_pat_cagr, it.implied_growth_rate, it.expectation_gap)
  /\ ItemUpdated =>
       \E it \in items :
         /\ it.id = resp.req.itemId
         /\ resp.body.expectationGap = it.expectation_gap
         /\ resp.body.impliedGrowth = it.implied_growth_rate
  /\ ItemsSent =>
       \A it \in resp.body :
         GapRule(it.expected_pat_cagr, it.implied_growth_rate, it.expectation_gap)

\* POST /:watchlistId/items has stored a row whose solve returned the sentinel
\* and whose gap is the expected growth of the request, 30
C10_Witness ==
  /\ ItemAdded
  /\ \E it \in items :
       /\ it.id = resp.body.id
       /\ IsNull(it.implied_growth_rate)
       /\ NumEq(it.expectation_gap, it.expected_pat_cagr)
       /\ NumEq(it.expectation_gap, Int2Num(30))

\* the response to the documented example has been sent
GuideExampleSent == DcfSent /\ resp.req = GuideExample

\* x rounded to one decimal place is k / 10
OneDecimal(x, k) == IsNum(x) /\ MathRound(NumMul(x, Int2Num(10))) = k

\* C11: for the documented example (profit 1737, market cap 93800, discount
\* rate 15, horizon 10, exit multiple 45, expected growth 13) the implied
\* growth rate is 14.8 to one decimal place, the expectation gap is -1.8 to
\* one decimal place and the signal is 'Hold'.
C11_GuideExampleGrowthGapSignal ==
  GuideExampleSent =>
    /\ OneDecimal(resp.body.impliedGrowthRate, 148)
    /\ OneDecimal(resp.body.expectationGap, -18)
    /\ resp.body.signal = "Hold"

\* the example has been answered with the solver's result 14.77
C11_Witness ==
  /\ GuideExampleSent
  /\ resp.status = 200
  /\ NumEq(resp.body.impliedGrowthRate, Frac(1477, 100))

\* C12: for the documented example the value at the expected growth 13 is
\* within 1% of 82500 and the upside is -12.0 to one decimal place, as the
\* documented response shows.
C12_GuideExampleValueUpside ==
  GuideExampleSent =>
    /\ IsNum(resp.body.impliedEquityValue)
    /\ NumLeq(NumAbs(NumSub(resp.body.impliedEquityValue, Int2Num(82500))), Int2Num(825))
    /\ OneDecimal(resp.body.upside, -120)

(***************************************************************************)
(* Properties of getDefaultAssumptions (specification SpecDefaults).       *)
(***************************************************************************)
\* the band of the documented table a market cap m lies in
TableBand(m) ==
  IF NumLess(m, Int2Num(500)) THEN <<20, 20, 25, "Micro Cap">>
  ELSE IF NumLeq(Int2Num(500), m) /\ NumLess(m, Int2Num(5000))
  THEN <<20, 20, 25, "Small Cap">>
  ELSE IF NumLeq(Int2Num(5000), m) /\ NumLess(m, Int2Num(20000))
  THEN <<15, 18, 18, "Mid Cap">>
  ELSE IF NumLeq(Int2Num(20000), m) /\ NumLess(m, Int2Num(50000))
  THEN <<15, 16, 15, "Large-Mid Cap">>
  ELSE IF NumLeq(Int2Num(50000), m) /\ NumLess(m, Int2Num(200000))
  THEN <<10, 15, 12, "Large Cap">>
  ELSE IF NumLeq(Int2Num(200000), m) THEN <<10, 13, 10, "Mega Cap">>
  ELSE <<>>

\* a call whose sector is a label (a string) has returned
LabelCall == dcall.called /\ ~IsArray(dcall.sector)

\* (forecastYears, discountRate, expectedPatCagr, category) of a result
BandOf(d) == <<d.forecastYears, d.discountRate, d.expectedPatCagr, d.category>>

NumBand(b) == <<Int2Num(b[1]), Int2Num(b[2]), Int2Num(b[3]), b[4]>>

CategoryAtHalves(k) == getDefaultAssumptions(Frac(k, 2), <<>>).category

\* a call with an empty sector label has returned
EmptySectorCall == LabelCall /\ dcall.sector = <<>>

KeyMatches(k) == includes(toLowerCase(dcall.sector), SECTOR_PE[k].key)

FirstMatch(k) == KeyMatches(k) /\ \A j \in 1..(k - 1) : ~KeyMatches(j)

IndianITServices == <<"I", "n", "d", "i", "a", "n", " ", "I", "T", " ", "S", "e", "r", "v", "i", "c", "e", "s">>

\* C15: the exit multiple is the value of the first key of the sector table,
\* in table order, that the lower-cased label contains; it is 20 when no key
\* matches or the label is empty; the case of the label does not matter;
\* 'Indian IT Services' gets 22, the multiple of 'it'.
C15_FirstSectorMatchWins ==
  LabelCall =>
    /\ \A k \in 1..Len(SECTOR_PE) :
         FirstMatch(k) => dcall.ret.exitPE = Int2Num(SECTOR_PE[k].val)
    /\ (dcall.sector = <<>> \/ \A k \in 1..Len(SECTOR_PE) : ~KeyMatches(k)) =>
         dcall.ret.exitPE = Int2Num(20)
    /\ getDefaultAssumptions(dcall.marketCapCr, toUpperCase(dcall.sector)).exitPE
         = dcall.ret.exitPE
    /\ dcall.sector = IndianITServices => dcall.ret.exitPE = Int2Num(22)

\* a label that contains two keys of different multiples has got the
\* multiple of the earlier one
C15_Witness ==
  /\ LabelCall
  /\ \E k \in 1..Len(SECTOR_PE) :
       \E j \in 1..(k - 1) :
         /\ FirstMatch(j)
         /\ KeyMatches(k)
         /\ SECTOR_PE[j].val # SECTOR_PE[k].val
         /\ dcall.ret.exitPE = Int2Num(SECTOR_PE[j].val)

(***************************************************************************)
(* Properties of the four functions together (specification SpecCore).     *)
(***************************************************************************)
SignalLabels == {"Strong Buy", "Buy", "Hold", "Caution", "Sell", "N/A"}

NoKeyMatches == dcall.sector = <<>> \/ \A k \in 1..Len(SECTOR_PE) : ~KeyMatches(k)

\* C16: calculateImpliedEquityValue, solveImpliedGrowthRate,
\* getDefaultAssumptions and getSignal return a value for every input and
\* never raise; a degenerate input gives 0, the solver's sentinel, the
\* default multiple 20 and 'N/A' respectively.
C16_CoreNeverRaises ==
  /\ (HasCall(vcall) /\ vcall.called) =>
       /\ ~Threw(vcall.ret)
       /\ ValueCallDegenerate => IsZero(vcall.ret)
  /\ pc = "done" =>
       /\ ~Threw(ret)
       /\ ~SolverInputsPositive => IsNull(ret)
  /\ (HasCall(dcall) /\ dcall.called) =>
       /\ ~Threw(dcall.ret)
       /\ NoKeyMatches => dcall.ret.exitPE = Int2Num(20)
  /\ (HasCall(scall) /\ scall.called) =>
       /\ scall.ret \in SignalLabels
       /\ (IsNull(scall.gap) \/ IsUndefined(scall.gap)) => scall.ret = "N/A"

(***************************************************************************)
(* Properties of concurrent calls (specification SpecConcurrent).          *)
(***************************************************************************)
\* what the call returns when it runs alone, from entry to return
AloneResult(a) ==
  solveImpliedGrowthRate(a.currentPAT, a.marketCap, a.discountRatePct,
                         a.forecastPeriod, a.exitPE)

Returned(p) == runs[p].pc = "done"

BracketOf(st) == <<st.low, st.high, st.done>>

\* the bracket the call holds after n iterations when it runs alone
AloneBracket(a, n) == BracketOf(BisectRun(a, Bracket(<<0, GridTop>>), n))

ValueAtGrowth(g) ==
  calculateImpliedEquityValue(args.currentPAT, Int2Num(g), args.discountRatePct,
                              args.forecastPeriod, args.exitPE)

\* the call has returned from inputs that pass the guard
SolvedCase == pc = "done" /\ SolverInputsPositive

\* the target is above the value at 200 by more than the tolerance
TargetAboveBracket ==
  NumLess(NumAdd(ValueAtGrowth(200), Tolerance(args.marketCap)), args.marketCap)

\* the target is below the value at -90 by more than the tolerance
TargetBelowBracket ==
  NumLess(args.marketCap, NumSub(ValueAtGrowth(-90), Tolerance(args.marketCap)))

\* C18: with a target above the value at growth 200 by more than the
\* tolerance the solver returns 200.00, with a target below the value at
\* growth -90 by more than the tolerance it returns -90.00; the result is a
\* number like any other.
C18_OutOfBracketReturnsExtreme ==
  SolvedCase =>
    /\ TargetAboveBracket => (IsNum(ret) /\ NumEq(ret, Int2Num(200)))
    /\ TargetBelowBracket => (IsNum(ret) /\ NumEq(ret, Int2Num(-90)))

\* a call with a horizon of a year or more and a target above the bracket
\* has used up its iterations and returned 200
C18_Witness ==
  /\ SolvedCase
  /\ args.forecastPeriod >= 1
  /\ TargetAboveBracket
  /\ i = maxIterations
  /\ NumEq(ret, Int2Num(200))

\* the loop ran out: the call returned after maxIterations iterations
LoopRanOut == SolvedCase /\ i = maxIterations

\* x has at most two decimal places
TwoDecimals(x) ==
  NumEq(NumMul(x, Int2Num(100)), Int2Num(MathRound(NumMul(x, Int2Num(100)))))

WithinBudget ==
  /\ evals <= maxIterations
  /\ LoopRanOut =>
       /\ evals = maxIterations
       /\ IsNum(ret)
       /\ TwoDecimals(ret)
       /\ NumLeq(NumAbs(NumSub(ret, GridPct(Midpoint(low, high)))), Frac(5, 1000))

\* the steps the call has left at most: the entry, the iterations, the return
Remaining ==
  IF pc = "entry" THEN maxIterations + 2
  ELSE IF pc = "loop" THEN maxIterations + 1 - i
  ELSE 0

\* a step uses up one of the steps left, and evaluates the valuation
\* function at most once
Progress ==
  /\ Remaining' < Remaining
  /\ Remaining' >= 0
  /\ evals' \in {evals, evals + 1}

\* C19: solveImpliedGrowthRate terminates (every step of a call uses up one
\* of at most 502 steps) after at most 500 evaluations of the valuation
\* function; when none of the 500 midpoints was within tolerance it returns
\* the midpoint of the final bracket rounded to 2 decimal places, a number
\* and not the sentinel.
C19_TerminatesWithinBudget == []WithinBudget /\ [][Progress]_vars

\* a call whose target lies below the bracket has evaluated 500 midpoints,
\* none within tolerance, and returned a number
C19_Witness ==
  /\ LoopRanOut
  /\ evals = 500
  /\ TargetBelowBracket
  /\ ~WithinTolerance(ValueAt(args, mid), args.marketCap)
  /\ IsNum(ret)

\* the call returned from inside the loop
EarlyExit == SolvedCase /\ i < maxIterations

\* the value of the last midpoint evaluated, unrounded, is within tolerance
LastMidpointWithinTolerance ==
  WithinClaimTolerance(
    calculateImpliedEquityValue(args.currentPAT, GridPct(mid), args.discountRatePct,
                                args.forecastPeriod, args.exitPE),
    args.marketCap)

StopsAtFirstMidpointWithinTolerance ==
  /\ (pc = "loop" /\ evals >= 1) => ~LastMidpointWithinTolerance
  /\ pc = "loop" => evals = i
  /\ EarlyExit =>
       /\ LastMidpointWithinTolerance
       /\ evals = i + 1
       /\ IsNum(ret)
       /\ TwoDecimals(ret)
       /\ NumLeq(NumAbs(NumSub(ret, GridPct(mid))), Frac(5, 1000))

\* once the call has returned nothing more is evaluated
NothingAfterReturn == pc = "done" => (pc' = "done" /\ UNCHANGED <<evals, mid, ret>>)

\* C20: the solver stops at the first iteration whose midpoint mid has
\* |value(mid) - target| < target * 1e-5, the value being the unrounded
\* result of the valuation function, and returns that mid rounded to 2
\* decimal places; no later midpoint is evaluated.
C20_EarlyExitAtFirstHit == []StopsAtFirstMidpointWithinTolerance /\ [][NothingAfterReturn]_vars

\* a call has stopped at a midpoint that is not its first and that the
\* rounding changed
C20_Witness ==
  /\ EarlyExit
  /\ evals = i + 1
  /\ i >= 2
  /\ LastMidpointWithinTolerance
  /\ ~NumEq(ret, GridPct(mid))

(***************************************************************************)
(* The bracket of the bisection loop.                                      *)
(***************************************************************************)
\* an iteration that did not exit: lines 73-74 ran and the loop goes on
IterationNarrowed == pc = "loop" /\ pc' = "loop"

\* val < target for the midpoint the iteration evaluated, the value unrounded
MidValueBelowTarget ==
  NumLess(calculateImpliedEquityValue(args.currentPAT, GridPct(mid'), args.discountRatePct,
                                      args.forecastPeriod, args.exitPE),
          args.marketCap)

\* the bound lines 73-74 assign is the midpoint and the other bound is kept
OneBoundAssigned ==
  /\ mid' = Midpoint(low, high)
  /\ IF MidValueBelowTarget
     THEN low' = mid' /\ high' = high
     ELSE high' = mid' /\ low' = low

\* exactly one of the two bounds has a new value
ExactlyOneBoundChanged == (low' # low) # (high' # high)

\* C21 as stated: in every iteration that does not exit exactly one bound
\* changes: low becomes mid when value(mid) < target, else high becomes mid,
\* and the other bound is unchanged.
C21_ExactlyOneBoundChanges ==
  [][IterationNarrowed => (OneBoundAssigned /\ ExactlyOneBoundChanged)]_vars

\* C21: in every iteration that does not exit exactly one bound is assigned:
\* if value(mid) < target then low becomes mid and high is unchanged,
\* otherwise high becomes mid and low is unchanged; the assigned bound has a
\* new value unless the midpoint is that bound itself.
C21_OneBoundAssignedOtherKept ==
  [][IterationNarrowed =>
       /\ OneBoundAssigned
       /\ ExactlyOneBoundChanged \/ (UNCHANGED <<low, high>> /\ mid' \in {low, high})]_vars

\* the first iteration of a call raised low to the midpoint
C21_Witness ==
  /\ pc = "loop"
  /\ i = 1
  /\ low = mid
  /\ low = GridTop \div 2
  /\ high = GridTop

\* the call is at the start of an iteration (or of the return after the last)
AtIterationStart == pc = "loop"

\* -90 <= low <= high <= 200
BoundsOrdered == 0 <= low /\ low <= high /\ high <= GridTop

\* high - low = 290 / 2^i; the bounds are multiples of 290 / 2^GridBits, so no
\* width they have equals 290 / 2^i for i above GridBits
WidthHalvedEachIteration == i <= GridBits /\ high - low = 2 ^ (GridBits - i)

\* C22 as stated: at the start of iteration i (i = 0..500) the bounds satisfy
\* -90 <= low < high <= 200 and high - low = 290 / 2^i.
C22_WidthIsInitialOverTwoToTheI ==
  AtIterationStart => (BoundsOrdered /\ low < high /\ WidthHalvedEachIteration)

\* the bounds the number format resolves: 290 / 2^i is a width of the grid
Resolved == i <= GridBits

BracketWithinResolution ==
  AtIterationStart =>
    /\ i \in 0..maxIterations
    /\ BoundsOrdered
    /\ Resolved => (low < high /\ WidthHalvedEachIteration)

\* an iteration moves neither bound outwards
NeverWidens == IterationNarrowed => (low <= low' /\ high' <= high)

\* C22: at the start of iteration i (i = 0..500) the bounds satisfy
\* -90 <= low <= high <= 200 and no iteration moves a bound outwards; as long
\* as the number format resolves 290 / 2^i the bounds satisfy low < high and
\* high - low = 290 / 2^i, every iteration halving the bracket exactly.
C22_BracketHalvedWhileResolved == []BracketWithinResolution /\ [][NeverWidens]_vars

\* the bracket has been halved down to one step of the grid
C22_Witness ==
  /\ AtIterationStart
  /\ i = GridBits
  /\ high = low + 1

\* the value of the call's inputs at the bound b, computed from the source's
\* formula at that bound's Number
ValueAtBound(b) ==
  calculateImpliedEquityValue(args.currentPAT, GridPct(b), args.discountRatePct,
                              args.forecastPeriod, args.exitPE)

\* value(-90) < target <= value(200)
InitiallyBracketed ==
  /\ NumLess(ValueAtGrowth(BracketLow), args.marketCap)
  /\ NumLeq(args.marketCap, ValueAtGrowth(BracketHigh))

\* value(low) < target <= value(high)
RootBracketed ==
  /\ NumLess(ValueAtBound(low), args.marketCap)
  /\ NumLeq(args.marketCap, ValueAtBound(high))

\* C23: if initially value(-90) < target <= value(200) then at the start of
\* every iteration value(low) < target <= value(high): the growth rate that
\* reproduces the target is never discarded from [low, high].
C23_RootStaysBracketed ==
  (AtIterationStart /\ InitiallyBracketed) => (BoundsOrdered /\ low < high /\ RootBracketed)

\* a call with its root between the initial bounds has moved both bounds
C23_Witness ==
  /\ AtIterationStart
  /\ InitiallyBracketed
  /\ i >= 3
  /\ 0 < low
  /\ high < GridTop
  /\ RootBracketed

\* -90 <= g <= 200
InInitialBracket(g) ==
  /\ IsNum(g)
  /\ NumLeq(Int2Num(BracketLow), g)
  /\ NumLeq(g, Int2Num(BracketHigh))

\* C24: every result of solveImpliedGrowthRate that is not the sentinel lies
\* in the closed initial bracket [-90, 200], for all inputs with profit > 0,
\* target > 0 and exit multiple > 0, a non-positive horizon and targets no
\* growth rate of the bracket reproduces included.
C24_ResultInInitialBracket ==
  /\ SolvedCase => InInitialBracket(ret)
  /\ (pc = "done" /\ ret # Null) => InInitialBracket(ret)

\* a call with horizon 0 has returned the upper end of the bracket
C24_Witness ==
  /\ SolvedCase
  /\ args.forecastPeriod = 0
  /\ NumEq(ret, Int2Num(BracketHigh))

(***************************************************************************)
(* The sector table.                                                       *)
(***************************************************************************)
\* the call's sector label is the key at position k of SECTOR_PE
SectorIsKey(k) == dcall.called /\ ~IsArray(dcall.sector) /\ dcall.sector = SECTOR_PE[k].key

\* C25: for every key k of the SECTOR_PE table getDefaultAssumptions(m, k)
\* has the exit multiple the table assigns to k: no earlier key that is a
\* substring of k carries a different multiple.
C25_NoSectorKeyShadowed ==
  \A k \in DOMAIN SECTOR_PE :
    SectorIsKey(k) => NumEq(dcall.ret.exitPE, Int2Num(SECTOR_PE[k].val))

(***************************************************************************)
(* Properties of analyzeStock (specification SpecApi).                     *)
(***************************************************************************)
\* the analysis of a stock with currentPAT <= 0 and no custom assumptions
UnprofitableAnalysis ==
  /\ AnalysisSent
  /\ NumLeq(resp.body.currentPAT, Int2Num(0))
  /\ resp.customAssumptions = NoCustom

\* C26: analyzeStock never reports the signal 'N/A' and its expectationGap is
\* always a number; for a stock with currentPAT <= 0 analysed with no custom
\* assumptions it returns impliedGrowthRate = null, impliedEquityValue = 0,
\* expectationGap equal to the band's default expected growth, and signal
\* 'Strong Buy'.
C26_NeverNotAvailable ==
  /\ AnalysisSent =>
       /\ resp.body.results.signal # "N/A"
       /\ resp.body.results.signal \in SignalLabels
       /\ IsNum(resp.body.results.expectationGap)
  /\ UnprofitableAnalysis =>
       /\ IsNull(resp.body.results.impliedGrowthRate)
       /\ IsZero(resp.body.results.impliedEquityValue)
       /\ NumEq(resp.body.results.expectationGap,
                Int2Num(TableBand(resp.body.marketCapCr)[3]))
       /\ resp.body.results.signal = "Strong Buy"

\* a company that broke even has been analysed with the defaults of its band
C26_Witness ==
  /\ UnprofitableAnalysis
  /\ IsZero(resp.body.currentPAT)
  /\ resp.body.mcapCategory = "Large Cap"
  /\ NumEq(resp.body.results.expectationGap, Int2Num(12))
  /\ resp.body.results.signal = "Strong Buy"

\* the fields of an assumptions object
AssumptionFields ==
  {"forecastYears", "discountRate", "terminalGrowth", "exitPE", "expectedPatCagr"}

\* the field f was supplied in customAssumptions
Supplied(f) == resp.customAssumptions[f] # Undefined

\* C27: for each of forecastYears, discountRate, terminalGrowth, exitPE and
\* expectedPatCagr the assumption analyzeStock uses and reports equals the
\* value supplied in customAssumptions whenever one is supplied (a supplied 0
\* included) and the getDefaultAssumptions value only when the field is
\* absent.
C27_CustomOverridesDefaults ==
  AnalysisSent =>
    \A f \in AssumptionFields :
      IF Supplied(f)
      THEN resp.body.assumptions[f] = resp.customAssumptions[f]
      ELSE resp.body.assumptions[f] = resp.body.defaults[f]

(***************************************************************************)
(* The two solvers (specification SpecSolvers).                            *)
(***************************************************************************)
\* both null, or the same Number
SameResult(a, b) == (IsNull(a) /\ IsNull(b)) \/ (IsNum(a) /\ IsNum(b) /\ NumEq(a, b))

\* C28: for every input (pat, marketCap, discountRate, forecastYears, exitPE)
\* the front end's solveGrowth returns the same result as
\* solveImpliedGrowthRate (both null, or the same 2-decimal growth rate),
\* targets whose implied growth lies outside [-80, 150] included.
C28_SolversEquivalent == gcall.called => SameResult(gcall.ret, gcall.uiRet)

(***************************************************************************)
(* Properties of the watchlist routes (specification SpecApi).             *)
(***************************************************************************)
WatchlistRoutes ==
  {"POST /:watchlistId/items", "PUT /:watchlistId/items/:itemId", "GET /:watchlistId/items",
   "DELETE /:watchlistId/items/:itemId", "DELETE /:watchlistId"}

\* the items of the watchlist w among rows
ItemsOf(rows, w) == {it \in rows : it.watchlist_id = w}

\* the step served a watchlist request of a user who does not own watchlist w
ServedOtherUser(w) == resp'.route \in WatchlistRoutes /\ resp'.req.userId # w.user_id

\* a request of another user leaves the watchlist and its items as they were
OnlyOwnerChanges ==
  \A w \in watchlists :
    ServedOtherUser(w) => (w \in watchlists' /\ ItemsOf(items', w.id) = ItemsOf(items, w.id))

\* C29: the items of a watchlist owned by user A are created, updated or
\* deleted only by requests authenticated as A; a PUT or DELETE on an item,
\* or a DELETE of the watchlist, issued by another user B leaves A's
\* watchlist and its items unchanged.
C29_WatchlistIsolation == [][OnlyOwnerChanges]_vars

\* at most one item per watchlist and stock symbol
OneItemPerSymbol ==
  \A a \in items : \A b \in items :
    (a.watchlist_id = b.watchlist_id /\ a.symbol = b.symbol) => a = b

\* the step served a POST /:watchlistId/items that wrote a row
AddServed == resp'.route = "POST /:watchlistId/items" /\ resp'.status = 200

\* the row has the assumptions the request supplied
HoldsRequest(row, b) ==
  /\ row.symbol = toUpperCase(b.symbol)
  /\ \/ Falsy(b.expectedPatCagr)
     \/ row.expected_pat_cagr = b.expectedPatCagr
  /\ \/ Falsy(b.forecastYears)
     \/ row.forecast_years = b.forecastYears
  /\ GapRule(row.expected_pat_cagr, row.implied_growth_rate, row.expectation_gap)
  /\ row.signal = getSignal(row.expectation_gap)

\* the new row takes the place of the item of its symbol, if there is one,
\* and every other item is as it was
AddReplaces ==
  AddServed =>
    \E row \in items' :
      /\ row.id = resp'.body.id
      /\ row.watchlist_id = resp'.req.watchlistId
      /\ HoldsRequest(row, resp'.req.body)
      /\ items' \ {row} =
           {it \in items : ~(it.watchlist_id = row.watchlist_id /\ it.symbol = row.symbol)}

\* PUT and DELETE add no item and leave the symbols as they are
NoSymbolAdded ==
  resp'.route \in (WatchlistRoutes \ {"POST /:watchlistId/items"}) =>
    \A b \in items' : \E a \in items : a.id = b.id /\ a.symbol = b.symbol
                                        /\ a.watchlist_id = b.watchlist_id

\* C30: after any sequence of add, update and remove operations a watchlist
\* holds at most one item per stock symbol; adding a symbol that is already
\* present replaces that item's assumptions and cached results instead of
\* creating a second item, and leaves the items of all other symbols
\* unchanged.
C30_OneItemPerSymbol == []OneItemPerSymbol /\ [][AddReplaces /\ NoSymbolAdded]_vars

\* BANK was in the watchlist from the start, LOSS was added by the first
\* request, and the second request added BANK again: its row is the new one
\* and the row of LOSS is still there
C30_Witness ==
  /\ ItemAdded
  /\ nreq = 2
  /\ resp.body.id = 2
  /\ resp.body.symbol = <<"B", "A", "N", "K">>
  /\ Cardinality(items) = 2
  /\ SeedItem \notin items
  /\ \E it \in items : it.id = 1 /\ it.symbol = <<"L", "O", "S", "S">>
  /\ \E it \in items : it.id = 2 /\ it.symbol = <<"B", "A", "N", "K">>
                        /\ NumEq(it.expected_pat_cagr, Int2Num(60))

====
